---------------------------- MODULE Spec2Model ----------------------------
(***************************************************************************)
(* AugmentFS (MetadataFS): a FUSE overlay that keeps, in a SQLite sidecar, *)
(* extended attributes and a whole-file FNV-1a checksum per virtual path,  *)
(* verifies the checksum on read and on append-open, and refuses           *)
(* destructive operations under append-only (WORM) directories.            *)
(*                                                                         *)
(* The model follows the whole-file program (src/unnamed/part_002, the     *)
(* version with open_path_to_fd, strict append and append_only_dirs).      *)
(* One action per FUSE callback; a callback is one atomic step, except     *)
(* fs_release and fs_rename, which also exist as the steps between which   *)
(* another thread's callback can run (the program takes no lock).          *)
(*                                                                         *)
(* What the host delivers (libfuse 2.9 high-level API, default options):   *)
(*   - the kernel looks a name up first: create is called only for a name  *)
(*     that does not exist, and open, unlink, truncate, rename (its        *)
(*     source) and the xattr calls only for a name that exists;            *)
(*   - read reaches the overlay only on a handle opened readable, write    *)
(*     only on a handle opened writable (the kernel checks the file mode); *)
(*   - release is called with the handle's current path: the path follows  *)
(*     a rename of the open file;                                          *)
(*   - unlink, and rename onto an existing name, reach the overlay only    *)
(*     when no handle is open on the victim (libfuse hides an open file);  *)
(*   - the backing open(2) returns the lowest free descriptor.             *)
(* The sidecar's statements run to completion; the sidecar itself is open  *)
(* except in SpecMain, where fs_init may fail to open it. The backing      *)
(* store fails only with ENOENT and EMFILE, and in SpecShort with a write  *)
(* that is refused or taken in part.                                       *)
(*                                                                         *)
(* The specifications share the actions:                                   *)
(*   Spec            every callback, on one name;                          *)
(*   SpecRename      files made at one name and renamed between two;       *)
(*   SpecXattr       the same, with attributes set, read and listed;       *)
(*   SpecWorm        a mount with an append-only directory;                *)
(*   SpecTamper      a backing file that is also changed outside;          *)
(*   SpecGone        a backing file that is changed or removed outside;    *)
(*   SpecShared      one file opened by several clients at a time;         *)
(*   SpecMain        the program from main to its exit status;             *)
(*   SpecRace        releases in steps, with opens in between;             *)
(*   SpecRenameRace  renames in steps, with observers in between;          *)
(*   SpecVerify      reads and opens of a file with or without a row, and  *)
(*                   with or without a sidecar;                            *)
(*   SpecPrefix      unlink and truncate under several append-only lists;  *)
(*   SpecFold        writes in buffers of several lengths and offsets;     *)
(*   SpecShort       writes that the backing store refuses or shortens;    *)
(*   SpecHandles     a file renamed while a handle on it is open;          *)
(*   SpecAppend      several clients appending to one file;                *)
(*   SpecDirs        a directory renamed with a file below it.             *)
(*                                                                         *)
(* The block program (src/blockfs.cpp) keeps one digest per block instead  *)
(* of one per file; its callbacks are the block_fs_ actions, which work on *)
(* the same backing store and descriptor table:                            *)
(*   SpecBlock       create, open, read, write, truncate and release of a  *)
(*                   file of up to MaxBlocks blocks, also changed outside; *)
(*   SpecBlockWorm   the block program started with the append-only        *)
(*                   option.                                               *)
(***************************************************************************)
EXTENDS Integers, Sequences, FiniteSets, TLC

(***************************************************************************)
(* Bounds of the model.                                                    *)
(***************************************************************************)
MaxLen == 2        \* longest backing file, in bytes
MaxFd == 2         \* descriptors the backing open(2) can hand out
MaxOpen == 1       \* handles the host keeps open at once
MaxFold == 2       \* bytes one handle may write between open and release
MaxFlips == 1      \* changes made to backing files outside the overlay
MaxValue == 2      \* longest attribute value, and longest getxattr buffer
MaxList == 14      \* the listxattr buffer: room for every key and its NUL
MaxArgs == 3       \* arguments after the backing directory
MaxInflight == 1   \* callbacks that have begun and not returned
MaxShared == 2     \* handles open at the same time on a shared file
MaxBlocks == 2     \* block mode: longest backing file, in blocks

(***************************************************************************)
(* Sentinels.                                                              *)
(***************************************************************************)
NoFile == <<-1>>     \* no file at the path (never the bytes of a file)
NoRow == "NoRow"     \* no row in a sidecar table (never a stored text)
NoHash == <<>>       \* no entry in checksum_map
NoPath == <<>>       \* no path argument
Closed == [path |-> NoPath, accmode |-> "none", how |-> "none",
           base |-> NoFile, wr |-> <<>>, cut |-> FALSE]

(***************************************************************************)
(* Virtual paths (sequences of characters) and the mount configuration.    *)
(***************************************************************************)
PA == <<"/", "a">>
PB == <<"/", "b">>
PX == <<"/", "l", "/", "x">>
\* a sibling of the directory /l whose name extends it
PL2 == <<"/", "l", "2">>
DirM == <<"/", "m">>
PMX == <<"/", "m", "/", "x">>
Paths == {PA, PB, PX, PL2, PMX}

\* the directory of "-o append_only_dirs=l"
DirL == <<"/", "l">>

Bytes == {0, 97}
Keys == {"user.j", "user.k"}
Values == {"v", "vw"}
Fds == 1..MaxFd
\* block mode: the blocks of a file, numbered from 0
BlockIndexes == 0..(MaxBlocks - 1)
\* O_WRONLY is left out: such a handle is an O_RDWR handle that is never read
AccModes == {"O_RDONLY", "O_RDWR"}

(***************************************************************************)
(* 64-bit unsigned arithmetic. A uint64_t is four 16-bit limbs, least      *)
(* significant first, so that every intermediate product fits TLC's        *)
(* integers; the results are exact modulo 2^64.                            *)
(***************************************************************************)
Limb == 65536

\* 1469598103934665603 = 0x14650FB0739D0383
FNV_OFFSET_BASIS == <<899, 29597, 4016, 5221>>

\* 1099511628211 = 0x100000001B3 = 2^40 + 0x1B3
FNV_PRIME_LOW == 435
FNV_PRIME_SHIFT == 256

RECURSIVE Xor8(_, _, _)
Xor8(a, b, n) ==
    IF n = 0 THEN 0
    ELSE (((a % 2) + (b % 2)) % 2) + 2 * Xor8(a \div 2, b \div 2, n - 1)

\* hash ^= (uint64_t) byte
XorByte(h, b) ==
    <<(h[1] - (h[1] % 256)) + Xor8(h[1] % 256, b, 8), h[2], h[3], h[4]>>

\* hash *= FNV_PRIME  (mod 2^64)
MulPrime(h) ==
    LET t1 == h[1] * FNV_PRIME_LOW
        t2 == h[2] * FNV_PRIME_LOW + (t1 \div Limb)
        t3 == h[3] * FNV_PRIME_LOW + h[1] * FNV_PRIME_SHIFT + (t2 \div Limb)
        t4 == h[4] * FNV_PRIME_LOW + h[2] * FNV_PRIME_SHIFT + (t3 \div Limb)
    IN  <<t1 % Limb, t2 % Limb, t3 % Limb, t4 % Limb>>

\* the size is not honoured: only the first byte of a buffer is folded
update_fnv1a_first(hash, buf) ==
    IF buf = <<>> THEN hash
    ELSE MulPrime(XorByte(hash, Head(buf)))

\* FNV-1 instead of FNV-1a: multiply first, then xor
RECURSIVE update_fnv1(_, _)
update_fnv1(hash, buf) ==
    IF buf = <<>> THEN hash
    ELSE update_fnv1(XorByte(MulPrime(hash), Head(buf)), Tail(buf))

RECURSIVE update_fnv1a(_, _)
update_fnv1a(hash, buf) ==
    IF buf = <<>> THEN hash
    ELSE update_fnv1a(MulPrime(XorByte(hash, Head(buf))), Tail(buf))

(***************************************************************************)
(* oss << std::hex << hash : lowercase hexadecimal, no leading zeros.      *)
(***************************************************************************)
HexDigit(d) ==
    <<"0", "1", "2", "3", "4", "5", "6", "7",
      "8", "9", "a", "b", "c", "d", "e", "f">>[d + 1]

Nibbles(l) == <<l \div 4096, (l \div 256) % 16, (l \div 16) % 16, l % 16>>

RECURSIVE HexStr(_, _)
HexStr(ds, started) ==
    IF ds = <<>> THEN (IF started THEN "" ELSE "0")
    ELSE IF Head(ds) = 0 /\ ~started THEN HexStr(Tail(ds), FALSE)
    ELSE HexDigit(Head(ds)) \o HexStr(Tail(ds), TRUE)

to_hex(h) ==
    HexStr(Nibbles(h[4]) \o Nibbles(h[3]) \o Nibbles(h[2]) \o Nibbles(h[1]), FALSE)

(***************************************************************************)
(* State.                                                                  *)
(***************************************************************************)
VARIABLES
    append_only_dirs,  \* the configured prefixes, e.g. <<"/logs", "/backups">>
    meta_db,           \* TRUE when the sidecar connection is open
    backing,           \* backing store: path -> bytes of the file, or NoFile
    checksums,         \* sidecar table checksums: path -> hex text, or NoRow
    metadata,          \* sidecar table metadata: <<path, key>> -> value, or NoRow
    fdtab,             \* descriptors of the backing store held for FUSE handles
    checksum_map,      \* fd -> running hash, or NoHash
    verified_ok_fds,   \* fds whose checksum matched
    verified_bad_fds,  \* fds with checksum mismatch
    open_path_to_fd,   \* multimap path -> fd, as a set of pairs
    pristine,          \* history: path -> bytes before an outside change, or NoFile
    flips,             \* history: outside changes so far
    xattrs,            \* history: <<path, key>> -> the value last set, or NoRow;
                       \* relabelled by a rename, dropped by an unlink
    block_hashes,      \* block mode, sidecar table block_hashes:
                       \* <<path, block_index>> -> hex text, or NoRow
    proc,              \* the process: where main is, its argv, its exit status
    inflight,          \* callbacks that have begun and not yet returned
    ret                \* the callback that ran last, and what it returned

vars == <<append_only_dirs, meta_db, backing, checksums, metadata, fdtab, checksum_map,
          verified_ok_fds, verified_bad_fds, open_path_to_fd,
          pristine, flips, xattrs, block_hashes, proc, inflight, ret>>

Min(a, b) == IF a < b THEN a ELSE b

\* what a callback leaves in ret: its name, its result, the bytes of a read
Ret(op, rc, data) == [op |-> op, rc |-> rc, data |-> data]

FreeFds == {f \in Fds : fdtab[f] = Closed}
LowestFree == CHOOSE f \in FreeFds : \A g \in FreeFds : f <= g
HandlesOn(p) == {f \in Fds : fdtab[f] # Closed /\ fdtab[f].path = p}

\* a handle as the backing store and the dispatch layer know it (path,
\* accmode), with its history: how it was obtained, the bytes of the file
\* when it was obtained, the payloads written on it, and whether the file
\* was truncated by path while it was open
Handle(p, accmode, how, base) ==
    [path |-> p, accmode |-> accmode, how |-> how, base |-> base,
     wr |-> <<>>, cut |-> FALSE]

full_path(p) == p

\* main has called fuse_main and the callbacks are being served
Serving == [pc |-> "serving", argv |-> <<>>, status |-> 0]

\* the state fs_init leaves behind; files are those an earlier mount left in
\* the backing directory, each with the checksum row of its bytes; opened
\* tells whether fs_init_db could open the sidecar this time
MountedWith(dirs, files, opened) ==
    /\ append_only_dirs = dirs
    /\ meta_db = opened
    /\ backing = files
    /\ checksums = [p \in Paths |->
                       IF files[p] = NoFile THEN NoRow
                       ELSE to_hex(update_fnv1a(FNV_OFFSET_BASIS, files[p]))]
    /\ metadata = [pk \in Paths \X Keys |-> NoRow]
    /\ fdtab = [f \in Fds |-> Closed]
    /\ checksum_map = [f \in Fds |-> NoHash]
    /\ verified_ok_fds = {}
    /\ verified_bad_fds = {}
    /\ open_path_to_fd = {}
    /\ pristine = [p \in Paths |-> NoFile]
    /\ flips = 0
    /\ xattrs = [pk \in Paths \X Keys |-> NoRow]
    /\ block_hashes = [pb \in Paths \X BlockIndexes |-> NoRow]
    /\ proc = Serving
    /\ inflight = {}
    /\ ret = Ret("mount", "OK", <<>>)

\* the same with the sidecar opened
Mounted(dirs, files) == MountedWith(dirs, files, TRUE)

NoFiles == [p \in Paths |-> NoFile]

(***************************************************************************)
(* main and the mount. Arguments are sequences of characters, as paths     *)
(* are; argv[1] is the program name (argv[0] in the source).               *)
(***************************************************************************)
\* "append_only_dirs=" and "-oappend_only_dirs="
key == <<"a", "p", "p", "e", "n", "d", "_", "o", "n", "l", "y", "_", "d", "i", "r", "s", "=">>
key2 == <<"-", "o">> \o key

\* the arguments main is started with
Prog == <<"f", "s">>
BackingDir == <<"b">>
Args ==
    { <<"-", "o">>,                       \* -o
      <<"-", "f">>,                       \* -f
      <<"m">>,                            \* the mount point
      key \o <<"l">>,                     \* append_only_dirs=l
      key \o <<",", "/", "l", ",", ",", "m">>,  \* append_only_dirs=,/l,,m
      key2 \o <<"m", ",">>,               \* -oappend_only_dirs=m,
      <<"r", ",">> \o key \o <<"l">> }    \* r,append_only_dirs=l

RECURSIVE SeqsUpTo(_, _)
SeqsUpTo(S, n) ==
    IF n = 0 THEN {<<>>}
    ELSE LET shorter == SeqsUpTo(S, n - 1)
         IN  shorter \cup {Append(t, a) : t \in shorter, a \in S}

ArgVectors ==
    {<<Prog>>, <<Prog, BackingDir>>}
        \cup {<<Prog, BackingDir>> \o t : t \in SeqsUpTo(Args, MaxArgs) \ {<<>>}}

\* strstr(haystack, needle): offset of the first occurrence, -1 for NULL
strstr(haystack, needle) ==
    LET at == {i \in 0..(Len(haystack) - Len(needle)) :
                  SubSeq(haystack, i + 1, i + Len(needle)) = needle}
    IN  IF at = {} THEN -1 ELSE CHOOSE i \in at : \A j \in at : i <= j

\* strncmp(s, t, n) == 0: the first n characters agree, a string that ends
\* before n ends where the other ends
strncmp_equal(s, t, n) ==
    /\ SubSeq(s, 1, Min(n, Len(s))) = SubSeq(t, 1, Min(n, Len(t)))
    /\ Len(s) >= n \/ Len(t) >= n => Len(s) >= n /\ Len(t) >= n

\* argv without argv[i]: the loop that moves the later arguments down, --argc
remove_arg(argv, i) ==
    [j \in 1..(Len(argv) - 1) |-> IF j < i THEN argv[j] ELSE argv[j + 1]]

\* a name that is not absolute is kept as it is
add_append_only_dirs_from_csv_verbatim(dirs, csv) ==
    LET RECURSIVE items(_, _)
        items(acc, rest) ==
            IF rest = <<>> THEN acc
            ELSE LET commas == {j \in 1..Len(rest) : rest[j] = ","}
                     stop == IF commas = {} THEN Len(rest) + 1
                             ELSE CHOOSE j \in commas : \A c \in commas : j <= c
                     item == SubSeq(rest, 1, stop - 1)
                     more == SubSeq(rest, stop + 1, Len(rest))
                 IN  IF item = <<>> THEN items(acc, more)
                     ELSE items(Append(acc, item), more)
    IN  items(dirs, csv)

\* add_append_only_dirs_from_csv: std::getline up to each ',', empty items
\* skipped, '/' put in front of an item that does not start with one
add_append_only_dirs_from_csv(dirs, csv) ==
    LET RECURSIVE items(_, _)
        items(acc, rest) ==
            IF rest = <<>> THEN acc
            ELSE LET commas == {j \in 1..Len(rest) : rest[j] = ","}
                     stop == IF commas = {} THEN Len(rest) + 1
                             ELSE CHOOSE j \in commas : \A c \in commas : j <= c
                     item == SubSeq(rest, 1, stop - 1)
                     more == SubSeq(rest, stop + 1, Len(rest))
                 IN  IF item = <<>> THEN items(acc, more)
                     ELSE IF item[1] # "/"
                     THEN items(Append(acc, <<"/">> \o item), more)
                     ELSE items(Append(acc, item), more)
    IN  items(dirs, csv)

\* parse_append_only_option: the scan from argv[2] of the source on; the
\* result is the argv left and the directories configured
RECURSIVE parse_append_only_option(_, _, _)
parse_append_only_option(argv, i, dirs) ==
    IF i > Len(argv) THEN [argv |-> argv, dirs |-> dirs]
    ELSE IF /\ argv[i] = <<"-", "o">>
            /\ i + 1 <= Len(argv)
            /\ strstr(argv[i + 1], key) = 0
    THEN parse_append_only_option(
             remove_arg(remove_arg(argv, i + 1), i), i,
             add_append_only_dirs_from_csv(
                 dirs, SubSeq(argv[i + 1], Len(key) + 1, Len(argv[i + 1]))))
    ELSE IF strncmp_equal(argv[i], key2, Len(key2))
    THEN parse_append_only_option(
             remove_arg(argv, i), i,
             add_append_only_dirs_from_csv(
                 dirs, SubSeq(argv[i], Len(key2) + 1, Len(argv[i]))))
    ELSE parse_append_only_option(argv, i + 1, dirs)

\* main started with the given arguments, nothing mounted yet
Started(args, files) ==
    /\ proc = [pc |-> "main", argv |-> args, status |-> 0]
    /\ append_only_dirs = <<>>
    /\ meta_db = FALSE
    /\ backing = files
    /\ checksums = [p \in Paths |-> NoRow]
    /\ metadata = [pk \in Paths \X Keys |-> NoRow]
    /\ fdtab = [f \in Fds |-> Closed]
    /\ checksum_map = [f \in Fds |-> NoHash]
    /\ verified_ok_fds = {}
    /\ verified_bad_fds = {}
    /\ open_path_to_fd = {}
    /\ pristine = [p \in Paths |-> NoFile]
    /\ flips = 0
    /\ xattrs = [pk \in Paths \X Keys |-> NoRow]
    /\ block_hashes = [pb \in Paths \X BlockIndexes |-> NoRow]
    /\ inflight = {}
    /\ ret = Ret("exec", "OK", <<>>)

mountVars == <<backing, checksums, metadata, fdtab, checksum_map,
               verified_ok_fds, verified_bad_fds, open_path_to_fd, pristine,
               flips, xattrs, block_hashes, inflight>>

\* main of the block program (src/blockfs.cpp): the argument list handed
\* to fuse_main. The backing directory is skipped, and so is "-o" together
\* with a following argument that contains "append_only"; that argument is
\* not read any further
RECURSIVE block_main_argv(_, _, _)
block_main_argv(argv, i, kept) ==
    IF i > Len(argv) THEN kept
    ELSE IF i = 2 THEN block_main_argv(argv, i + 1, kept)
    ELSE IF /\ argv[i] = <<"-", "o">>
            /\ i + 1 <= Len(argv)
            /\ strstr(argv[i + 1], <<"a", "p", "p", "e", "n", "d", "_",
                                      "o", "n", "l", "y">>) # -1
    THEN block_main_argv(argv, i + 2, kept)
    ELSE block_main_argv(argv, i + 1, Append(kept, argv[i]))

\* the block program serving after main was started with args: the vector
\* append_only_dirs is declared and never assigned
BlockMounted(args, files) ==
    /\ Len(args) >= 3
    /\ proc = [pc |-> "serving", argv |-> block_main_argv(args, 1, <<>>),
               status |-> 0]
    /\ append_only_dirs = <<>>
    /\ meta_db = TRUE
    /\ backing = files
    /\ checksums = [p \in Paths |-> NoRow]
    /\ metadata = [pk \in Paths \X Keys |-> NoRow]
    /\ fdtab = [f \in Fds |-> Closed]
    /\ checksum_map = [f \in Fds |-> NoHash]
    /\ verified_ok_fds = {}
    /\ verified_bad_fds = {}
    /\ open_path_to_fd = {}
    /\ pristine = [p \in Paths |-> NoFile]
    /\ flips = 0
    /\ xattrs = [pk \in Paths \X Keys |-> NoRow]
    /\ block_hashes = [pb \in Paths \X BlockIndexes |-> NoRow]
    /\ inflight = {}
    /\ ret = Ret("mount", "OK", <<>>)

\* main up to the call of fuse_main: the usage test, the option scan, the
\* shift that drops the backing directory
main ==
    /\ proc.pc = "main"
    /\ IF Len(proc.argv) < 3
       THEN /\ proc' = [proc EXCEPT !.pc = "exited", !.status = 1]
            /\ UNCHANGED append_only_dirs
       ELSE LET parsed == parse_append_only_option(proc.argv, 3, append_only_dirs)
            IN  /\ append_only_dirs' = parsed.dirs
                /\ proc' = [proc EXCEPT !.pc = "fuse_main",
                                        !.argv = remove_arg(parsed.argv, 2)]
    /\ ret' = Ret("main", "OK", <<>>)
    /\ UNCHANGED <<meta_db, mountVars>>

\* fuse_main cannot mount (no mount point, mount refused): main returns
\* the non-zero fuse_ret
fuse_main_fails ==
    /\ proc.pc = "fuse_main"
    /\ proc' = [proc EXCEPT !.pc = "exited", !.status = 1]
    /\ ret' = Ret("fuse_main", "FAIL", <<>>)
    /\ UNCHANGED <<append_only_dirs, meta_db, mountVars>>

\* fs_init, called by fuse_main once mounted: fs_init_db opens the sidecar
\* or fails, and the callbacks are served either way
fs_init(opened) ==
    /\ proc.pc = "fuse_main"
    /\ meta_db' = opened
    /\ proc' = Serving
    /\ ret' = Ret("init", IF opened THEN "OK" ELSE "FAIL", <<>>)
    /\ UNCHANGED <<append_only_dirs, mountVars>>

\* fs_destroy at unmount, then main returns the fuse_ret of a clean unmount
fs_destroy ==
    /\ proc.pc = "serving"
    /\ FreeFds = Fds
    /\ meta_db' = FALSE
    /\ proc' = [proc EXCEPT !.pc = "exited", !.status = 0]
    /\ ret' = Ret("destroy", "OK", <<>>)
    /\ UNCHANGED <<append_only_dirs, mountVars>>

(***************************************************************************)
(* Helpers of the program.                                                 *)
(***************************************************************************)

\* INSERT without the ON CONFLICT clause: an existing row is kept
store_checksum_insert_only(tab, path, hash) ==
    IF ~meta_db THEN tab
    ELSE IF tab[path] # NoRow THEN tab
    ELSE [tab EXCEPT ![path] = to_hex(hash)]

\* store_checksum: upsert of the checksums row; the table after the call
store_checksum(tab, path, hash) ==
    IF ~meta_db THEN tab
    ELSE [tab EXCEPT ![path] = to_hex(hash)]

\* what store_checksum returns: -EIO without a connection, 0 otherwise
store_checksum_result(path, hash) == IF ~meta_db THEN "EIO" ELSE "OK"

\* compute_checksum_for_file: hex text of the file's digest, "" if unreadable
compute_checksum_for_file(files, real_path) ==
    IF files[real_path] = NoFile THEN ""
    ELSE to_hex(update_fnv1a(FNV_OFFSET_BASIS, files[real_path]))

\* the file is never read: the hash stays at the offset basis
compute_hash_uint64_unread(files, real_path) == FNV_OFFSET_BASIS

\* compute_hash_uint64: the file's digest, the offset basis if unreadable
compute_hash_uint64(files, real_path) ==
    IF files[real_path] = NoFile THEN FNV_OFFSET_BASIS
    ELSE update_fnv1a(FNV_OFFSET_BASIS, files[real_path])

\* only the directory itself is matched, not what lies inside it
is_append_only_path_exact(path) ==
    /\ Len(append_only_dirs) > 0
    /\ \E i \in 1..Len(append_only_dirs) : path = append_only_dirs[i]

\* the "/" after the directory is not required: a name that extends the
\* directory's name is matched too
is_append_only_path_startswith(path) ==
    /\ Len(append_only_dirs) > 0
    /\ \E i \in 1..Len(append_only_dirs) :
          LET dir == append_only_dirs[i]
          IN  \/ path = dir
              \/ /\ Len(path) > Len(dir)
                 /\ SubSeq(path, 1, Len(dir)) = dir

\* is_append_only_path: inside any append-only directory
is_append_only_path(path) ==
    /\ Len(append_only_dirs) > 0
    /\ \E i \in 1..Len(append_only_dirs) :
          LET dir == append_only_dirs[i]
          IN  \/ path = dir
              \/ /\ Len(path) > Len(dir)
                 /\ SubSeq(path, 1, Len(dir)) = dir
                 /\ path[Len(dir) + 1] = "/"

\* the O_TRUNC test is left out: every open inside the directory is refused
open_is_destructive_any(path, trunc) == is_append_only_path(path)

\* fs_open's first test: O_TRUNC inside an append-only directory
open_is_destructive(path, trunc) == is_append_only_path(path) /\ trunc

\* no read is verified
read_is_verified_never(fd) == FALSE

\* fs_read's test: a descriptor with a running hash is not verified
read_is_verified(fd) == checksum_map[fd] = NoHash

\* the cached verdict "bad" is not consulted: the file is hashed again
verify_fd_checksum_recheck(path, fd) ==
    IF fd \in verified_ok_fds THEN "ok"
    ELSE IF ~meta_db THEN "ok"
    ELSE IF checksums[path] = NoRow THEN "ok"
    ELSE IF checksums[path] = "" THEN "ok"
    ELSE LET current == compute_checksum_for_file(backing, full_path(path))
         IN  IF current = "" THEN "bad"
             ELSE IF current = checksums[path] THEN "ok"
             ELSE "bad"

\* the verdict "ok" is kept per path: a handle is trusted when another
\* handle on the same path has passed
verify_fd_checksum_perpath(path, fd) ==
    IF \E g \in verified_ok_fds : fdtab[g].path = path THEN "ok"
    ELSE IF fd \in verified_bad_fds THEN "bad"
    ELSE IF ~meta_db THEN "ok"
    ELSE IF checksums[path] = NoRow THEN "ok"
    ELSE IF checksums[path] = "" THEN "ok"
    ELSE LET current == compute_checksum_for_file(backing, full_path(path))
         IN  IF current = "" THEN "bad"
             ELSE IF current = checksums[path] THEN "ok"
             ELSE "bad"

\* a read without a sidecar connection fails verification
verify_fd_checksum_nodb(path, fd) ==
    IF fd \in verified_ok_fds THEN "ok"
    ELSE IF fd \in verified_bad_fds THEN "bad"
    ELSE IF ~meta_db THEN "bad"
    ELSE IF checksums[path] = NoRow THEN "ok"
    ELSE IF checksums[path] = "" THEN "ok"
    ELSE LET current == compute_checksum_for_file(backing, full_path(path))
         IN  IF current = "" THEN "bad"
             ELSE IF current = checksums[path] THEN "ok"
             ELSE "bad"

\* a path without a stored checksum fails verification
verify_fd_checksum_closed(path, fd) ==
    IF fd \in verified_ok_fds THEN "ok"
    ELSE IF fd \in verified_bad_fds THEN "bad"
    ELSE IF ~meta_db THEN "ok"
    ELSE IF checksums[path] = NoRow THEN "bad"
    ELSE IF checksums[path] = "" THEN "ok"
    ELSE LET current == compute_checksum_for_file(backing, full_path(path))
         IN  IF current = "" THEN "bad"
             ELSE IF current = checksums[path] THEN "ok"
             ELSE "bad"

\* verify_fd_checksum: "ok" | "bad", cached per fd in verified_*_fds
verify_fd_checksum(path, fd) ==
    IF fd \in verified_ok_fds THEN "ok"
    ELSE IF fd \in verified_bad_fds THEN "bad"
    ELSE IF ~meta_db THEN "ok"
    ELSE IF checksums[path] = NoRow THEN "ok"
    ELSE IF checksums[path] = "" THEN "ok"
    ELSE LET current == compute_checksum_for_file(backing, full_path(path))
         IN  IF current = "" THEN "bad"
             ELSE IF current = checksums[path] THEN "ok"
             ELSE "bad"

\* pwrite(fd, buf, size, offset): the file after the call (a gap reads as zeros)
pwrite(content, buf, offset) ==
    LET n == IF Len(content) > offset + Len(buf) THEN Len(content)
             ELSE offset + Len(buf)
    IN  [i \in 1..n |->
            IF i > offset /\ i <= offset + Len(buf) THEN buf[i - offset]
            ELSE IF i <= Len(content) THEN content[i]
            ELSE 0]

\* pread(fd, buf, size, offset): the bytes returned
pread(content, size, offset) ==
    IF offset >= Len(content) THEN <<>>
    ELSE SubSeq(content, offset + 1, Min(Len(content), offset + size))

\* truncate(path, size): the file after the call (it grows with zeros)
truncate(content, size) ==
    [i \in 1..size |-> IF i <= Len(content) THEN content[i] ELSE 0]

(***************************************************************************)
(* fs_create: create a new file.                                           *)
(***************************************************************************)
fs_create(path, accmode) ==
    /\ backing[path] = NoFile
    /\ IF FreeFds = {}
       THEN /\ ret' = Ret("create", "EMFILE", <<>>)
            /\ UNCHANGED <<backing, fdtab, checksum_map, pristine>>
       ELSE LET fd == LowestFree
                is_writer == accmode \in {"O_WRONLY", "O_RDWR"}
            IN  /\ backing' = [backing EXCEPT ![path] = <<>>]
                /\ fdtab' = [fdtab EXCEPT ![fd] = Handle(path, accmode, "create", <<>>)]
                /\ checksum_map' =
                      IF is_writer
                      THEN [checksum_map EXCEPT ![fd] = FNV_OFFSET_BASIS]
                      ELSE checksum_map
                /\ pristine' = [pristine EXCEPT ![path] = NoFile]
                /\ ret' = Ret("create", "OK", <<>>)
    /\ UNCHANGED <<block_hashes, proc, inflight, xattrs>>
    /\ UNCHANGED <<flips, append_only_dirs, meta_db, checksums, metadata,
                   verified_ok_fds, verified_bad_fds, open_path_to_fd>>

(***************************************************************************)
(* fs_open: open a file in the backing directory. A backing open(2) with   *)
(* O_TRUNC empties the file when the access mode can write; with O_RDONLY  *)
(* the result is unspecified and either outcome is taken.                  *)
(***************************************************************************)
\* the strict check is left out: every append-open passes
strict_check_off(db_hash, disk_hash_str) == FALSE

\* fs_open's STRICT CHECK: a stored text that is not the text of the disk hash
strict_check(db_hash, disk_hash_str) ==
    db_hash # "" /\ db_hash # disk_hash_str

fs_open(path, accmode, trunc) ==
    LET is_writer == accmode \in {"O_WRONLY", "O_RDWR"}
        same == <<append_only_dirs, meta_db, backing, checksums, metadata,
                  fdtab, checksum_map, verified_ok_fds, verified_bad_fds,
                  open_path_to_fd, pristine>>
    IN
    /\ UNCHANGED <<block_hashes, proc, inflight, xattrs, flips>>
    /\ IF open_is_destructive(path, trunc)
       THEN /\ ret' = Ret("open", "EPERM", <<>>)
            /\ UNCHANGED same
       ELSE IF backing[path] = NoFile
       THEN /\ ret' = Ret("open", "ENOENT", <<>>)
            /\ UNCHANGED same
       ELSE IF FreeFds = {}
       THEN /\ ret' = Ret("open", "EMFILE", <<>>)
            /\ UNCHANGED same
       ELSE
         \E emptied \in (IF trunc THEN (IF is_writer THEN {TRUE} ELSE BOOLEAN)
                         ELSE {FALSE}) :
           LET fd == LowestFree
               files == IF emptied THEN [backing EXCEPT ![path] = <<>>]
                        ELSE backing
               disk_hash_val == compute_hash_uint64(files, full_path(path))
               db_hash == checksums[path]
               strict_fail == /\ is_writer /\ ~trunc
                              /\ meta_db
                              /\ db_hash # NoRow
                              /\ strict_check(db_hash, to_hex(disk_hash_val))
               how == IF trunc THEN "open_trunc" ELSE "open"
           IN  /\ backing' = files
               /\ verified_ok_fds' = verified_ok_fds \ {fd}
               /\ verified_bad_fds' = verified_bad_fds \ {fd}
               /\ IF strict_fail
                  THEN /\ ret' = Ret("open", "EIO", <<>>)
                       /\ UNCHANGED <<fdtab, checksum_map, open_path_to_fd>>
                  ELSE /\ fdtab' = [fdtab EXCEPT
                                      ![fd] = Handle(path, accmode, how,
                                                     files[path])]
                       /\ checksum_map' =
                             IF ~is_writer THEN checksum_map
                             ELSE IF trunc
                             THEN [checksum_map EXCEPT ![fd] = FNV_OFFSET_BASIS]
                             ELSE [checksum_map EXCEPT ![fd] = disk_hash_val]
                       /\ open_path_to_fd' = open_path_to_fd \cup {<<path, fd>>}
                       /\ ret' = Ret("open", "OK", <<>>)
               /\ UNCHANGED <<append_only_dirs, meta_db, checksums, metadata,
                              pristine>>

(***************************************************************************)
(* fs_read: read from an already-open file.                                *)
(***************************************************************************)
\* the bytes a descriptor opened at path refers to: the file at the path,
\* or the file that was there until it was removed outside the overlay
inode(path) == IF backing[path] # NoFile THEN backing[path] ELSE pristine[path]

fs_read(fd, size, offset) ==
    /\ fdtab[fd] # Closed
    /\ fdtab[fd].accmode \in {"O_RDONLY", "O_RDWR"}
    /\ LET path == fdtab[fd].path
           verdict == IF read_is_verified(fd)
                      THEN verify_fd_checksum(path, fd)
                      ELSE "skip"
       IN  /\ verified_ok_fds' =
                 IF verdict = "ok" THEN verified_ok_fds \cup {fd}
                 ELSE verified_ok_fds
           /\ verified_bad_fds' =
                 IF verdict = "bad" THEN verified_bad_fds \cup {fd}
                 ELSE verified_bad_fds
           /\ ret' = IF verdict = "bad"
                     THEN Ret("read", "EIO", <<>>)
                     ELSE Ret("read", "OK", pread(inode(path), size, offset))
    /\ UNCHANGED <<block_hashes, proc, inflight, xattrs>>
    /\ UNCHANGED <<flips, append_only_dirs, meta_db, backing, checksums, metadata,
                   fdtab, checksum_map, open_path_to_fd, pristine>>

(***************************************************************************)
(* fs_write: write to an already-open file.                                *)
(***************************************************************************)
\* one running hash for all the writers: the payload is folded into each
writer_update_shared(map, fd, buf) ==
    [g \in Fds |-> IF map[g] # NoHash THEN update_fnv1a(map[g], buf) ELSE map[g]]

\* checksum_map.find(fd), update_fnv1a(it->second, buf, size)
writer_update(map, fd, buf) ==
    IF map[fd] # NoHash THEN [map EXCEPT ![fd] = update_fnv1a(@, buf)]
    ELSE map

\* fs_write with the result res of pwrite(2) given: -1 for an error of the
\* host (ENOSPC, EIO, ...), else the number of bytes that were written,
\* which may be less than asked for. The running hash is updated with the
\* whole buffer before pwrite is called.
fs_write_res(fd, buf, offset, res) ==
    /\ fdtab[fd] # Closed
    /\ fdtab[fd].accmode \in {"O_WRONLY", "O_RDWR"}
    /\ offset + Len(buf) <= MaxLen
    /\ Len(fdtab[fd].wr) + Len(buf) <= MaxFold
    /\ res \in -1..Len(buf)
    /\ LET path == fdtab[fd].path
           written == IF res = -1 THEN <<>> ELSE SubSeq(buf, 1, res)
       IN  /\ checksum_map' = writer_update(checksum_map, fd, buf)
           /\ backing' = IF written = <<>> THEN backing
                         ELSE [backing EXCEPT ![path] = pwrite(@, written, offset)]
           /\ fdtab' = [fdtab EXCEPT ![fd].wr = @ \o written]
           /\ ret' = IF res = -1 THEN Ret("write", "ENOSPC", <<>>)
                     ELSE Ret("write", "OK", <<>>)
    /\ UNCHANGED <<block_hashes, proc, inflight, xattrs>>
    /\ UNCHANGED <<flips, append_only_dirs, meta_db, checksums, metadata,
                   verified_ok_fds, verified_bad_fds, open_path_to_fd, pristine>>

\* fs_write when the backing store takes the whole buffer
fs_write(fd, buf, offset) == fs_write_res(fd, buf, offset, Len(buf))

(***************************************************************************)
(* fs_release: close the file when FUSE is done.                           *)
(***************************************************************************)
fs_release(fd) ==
    /\ fdtab[fd] # Closed
    /\ LET path == fdtab[fd].path
       IN  /\ open_path_to_fd' = open_path_to_fd \ {<<path, fd>>}
           /\ fdtab' = [fdtab EXCEPT ![fd] = Closed]
           /\ IF checksum_map[fd] # NoHash
              THEN /\ checksum_map' = [checksum_map EXCEPT ![fd] = NoHash]
                   /\ checksums' = store_checksum(checksums, path, checksum_map[fd])
              ELSE UNCHANGED <<checksum_map, checksums>>
           /\ verified_ok_fds' = verified_ok_fds \ {fd}
           /\ verified_bad_fds' = verified_bad_fds \ {fd}
           /\ ret' = Ret("release", "OK", <<>>)
    /\ UNCHANGED <<block_hashes, proc, inflight, xattrs>>
    /\ UNCHANGED <<flips, append_only_dirs, meta_db, backing, metadata, pristine>>

(***************************************************************************)
(* fs_unlink: delete a file.                                               *)
(***************************************************************************)
\* DELETE FROM metadata WHERE path = ?
DeleteMetadataPath(tab, path) ==
    [pk \in Paths \X Keys |-> IF pk[1] = path THEN NoRow ELSE tab[pk]]

\* the DELETE on checksums is left out
DeleteChecksumsPath_kept(tab, path) == tab

\* DELETE FROM checksums WHERE path = ?
DeleteChecksumsPath(tab, path) == [tab EXCEPT ![path] = NoRow]

\* the append-only test is made after unlink(2) and the DELETEs
fs_unlink_tested_late(path) ==
    /\ HandlesOn(path) = {}
    /\ IF backing[path] = NoFile
       THEN /\ ret' = Ret("unlink", "ENOENT", <<>>)
            /\ UNCHANGED <<backing, checksums, metadata, pristine, xattrs>>
       ELSE /\ backing' = [backing EXCEPT ![path] = NoFile]
            /\ metadata' =
                  IF meta_db THEN DeleteMetadataPath(metadata, path)
                  ELSE metadata
            /\ checksums' =
                  IF meta_db THEN DeleteChecksumsPath(checksums, path)
                  ELSE checksums
            /\ pristine' = [pristine EXCEPT ![path] = NoFile]
            /\ xattrs' = [pk \in Paths \X Keys |->
                             IF pk[1] = path THEN NoRow ELSE xattrs[pk]]
            /\ ret' = IF is_append_only_path(path)
                      THEN Ret("unlink", "EPERM", <<>>)
                      ELSE Ret("unlink", "OK", <<>>)
    /\ UNCHANGED <<block_hashes, proc, inflight>>
    /\ UNCHANGED <<flips, append_only_dirs, meta_db, fdtab, checksum_map,
                   verified_ok_fds, verified_bad_fds, open_path_to_fd>>

fs_unlink(path) ==
    /\ HandlesOn(path) = {}
    /\ IF is_append_only_path(path)
       THEN /\ ret' = Ret("unlink", "EPERM", <<>>)
            /\ UNCHANGED <<backing, checksums, metadata, pristine, xattrs>>
       ELSE IF backing[path] = NoFile
       THEN /\ ret' = Ret("unlink", "ENOENT", <<>>)
            /\ UNCHANGED <<backing, checksums, metadata, pristine, xattrs>>
       ELSE /\ backing' = [backing EXCEPT ![path] = NoFile]
            /\ metadata' =
                  IF meta_db THEN DeleteMetadataPath(metadata, path)
                  ELSE metadata
            /\ checksums' =
                  IF meta_db THEN DeleteChecksumsPath(checksums, path)
                  ELSE checksums
            /\ pristine' = [pristine EXCEPT ![path] = NoFile]
            /\ xattrs' = [pk \in Paths \X Keys |->
                             IF pk[1] = path THEN NoRow ELSE xattrs[pk]]
            /\ ret' = Ret("unlink", "OK", <<>>)
    /\ UNCHANGED <<block_hashes, proc, inflight>>
    /\ UNCHANGED <<flips, append_only_dirs, meta_db, fdtab, checksum_map,
                   verified_ok_fds, verified_bad_fds, open_path_to_fd>>

(***************************************************************************)
(* fs_truncate: truncate by path, re-hash, reset the open writers.         *)
(***************************************************************************)
fs_truncate(path, size) ==
    /\ IF is_append_only_path(path)
       THEN /\ ret' = Ret("truncate", "EPERM", <<>>)
            /\ UNCHANGED <<backing, checksums, checksum_map, fdtab>>
       ELSE IF backing[path] = NoFile
       THEN /\ ret' = Ret("truncate", "ENOENT", <<>>)
            /\ UNCHANGED <<backing, checksums, checksum_map, fdtab>>
       ELSE LET files == [backing EXCEPT ![path] = truncate(@, size)]
                new_hash == compute_hash_uint64(files, full_path(path))
            IN  /\ backing' = files
                /\ checksums' = store_checksum(checksums, path, new_hash)
                /\ checksum_map' =
                      [fd \in Fds |->
                          IF <<path, fd>> \in open_path_to_fd
                             /\ checksum_map[fd] # NoHash
                          THEN new_hash
                          ELSE checksum_map[fd]]
                /\ fdtab' = [fd \in Fds |->
                               IF fd \in HandlesOn(path)
                               THEN [fdtab[fd] EXCEPT !.cut = TRUE]
                               ELSE fdtab[fd]]
                /\ ret' = Ret("truncate", "OK", <<>>)
    /\ UNCHANGED <<block_hashes, proc, inflight, xattrs>>
    /\ UNCHANGED <<flips, append_only_dirs, meta_db, metadata, verified_ok_fds,
                   verified_bad_fds, open_path_to_fd, pristine>>

(***************************************************************************)
(* fs_setxattr: upsert of a metadata row.                                  *)
(***************************************************************************)
\* INSERT ... ON CONFLICT(path, key) DO UPDATE SET value = excluded.value
upsert_metadata(tab, path, name, value) ==
    [tab EXCEPT ![<<path, name>>] = value]

fs_setxattr(path, name, value) ==
    /\ backing[path] # NoFile
    /\ IF ~meta_db
       THEN /\ ret' = Ret("setxattr", "EIO", <<>>)
            /\ UNCHANGED <<metadata, xattrs>>
       ELSE /\ metadata' = upsert_metadata(metadata, path, name, value)
            /\ xattrs' = [xattrs EXCEPT ![<<path, name>>] = value]
            /\ ret' = Ret("setxattr", "OK", <<>>)
    /\ UNCHANGED <<block_hashes, proc, inflight>>
    /\ UNCHANGED <<flips, append_only_dirs, meta_db, backing, checksums, fdtab,
                   checksum_map, verified_ok_fds, verified_bad_fds,
                   open_path_to_fd, pristine>>

(***************************************************************************)
(* fs_getxattr: point lookup of a metadata row. The reply is the length of *)
(* the value and, when the caller's buffer is large enough, the value.     *)
(***************************************************************************)
\* a buffer exactly as long as the value is refused
xattr_reply_strict(blob_size, size) ==
    IF size = 0 THEN "size"
    ELSE IF size <= blob_size THEN "ERANGE"
    ELSE "copy"

\* the tests after the row was found: size probe, short buffer, copy
xattr_reply(blob_size, size) ==
    IF size = 0 THEN "size"
    ELSE IF size < blob_size THEN "ERANGE"
    ELSE "copy"

\* what getxattr and listxattr leave in ret.data: the number returned and
\* what was copied into the caller's buffer
Reply(n, buf) == [n |-> n, buf |-> buf]

fs_getxattr(path, name, size) ==
    /\ backing[path] # NoFile
    /\ ret' =
          IF ~meta_db THEN Ret("getxattr", "EIO", Reply(0, ""))
          ELSE IF metadata[<<path, name>>] = NoRow
          THEN Ret("getxattr", "ENODATA", Reply(0, ""))
          ELSE LET blob == metadata[<<path, name>>]
                   blob_size == Len(blob)
                   how == xattr_reply(blob_size, size)
               IN  IF how = "size" THEN Ret("getxattr", "OK", Reply(blob_size, ""))
                   ELSE IF how = "ERANGE"
                   THEN Ret("getxattr", "ERANGE", Reply(0, ""))
                   ELSE Ret("getxattr", "OK", Reply(blob_size, blob))
    /\ UNCHANGED <<block_hashes, proc, inflight, xattrs, flips, append_only_dirs, meta_db,
                   backing, checksums, metadata, fdtab, checksum_map,
                   verified_ok_fds, verified_bad_fds, open_path_to_fd,
                   pristine>>

(***************************************************************************)
(* fs_listxattr: the keys of a path, each followed by a NUL. The order of  *)
(* the rows of a SELECT without ORDER BY is not fixed; the copied names    *)
(* are kept as a set.                                                      *)
(***************************************************************************)
RECURSIVE required_size(_)
required_size(keys) ==
    IF keys = {} THEN 0
    ELSE LET k == CHOOSE x \in keys : TRUE
         IN  Len(k) + 1 + required_size(keys \ {k})

fs_listxattr(path, size) ==
    /\ backing[path] # NoFile
    /\ ret' =
          IF ~meta_db THEN Ret("listxattr", "EIO", Reply(0, {}))
          ELSE LET keys == {k \in Keys : metadata[<<path, k>>] # NoRow}
                   required == required_size(keys)
               IN  IF size = 0 THEN Ret("listxattr", "OK", Reply(required, {}))
                   ELSE IF size < required
                   THEN Ret("listxattr", "ERANGE", Reply(0, {}))
                   ELSE Ret("listxattr", "OK", Reply(required, keys))
    /\ UNCHANGED <<block_hashes, proc, inflight, xattrs, flips, append_only_dirs, meta_db,
                   backing, checksums, metadata, fdtab, checksum_map,
                   verified_ok_fds, verified_bad_fds, open_path_to_fd,
                   pristine>>

(***************************************************************************)
(* fs_rename. "UPDATE t SET path = to WHERE path = from" fails as a whole  *)
(* (SQLite aborts the statement and undoes it) when a moved row would      *)
(* collide with a row of `to` on the table's primary key; the code         *)
(* ignores the result of sqlite3_step.                                     *)
(***************************************************************************)
UpdateMetadataPath(tab, from, to) ==
    IF from = to THEN tab
    ELSE IF \E k \in Keys : tab[<<from, k>>] # NoRow /\ tab[<<to, k>>] # NoRow
    THEN tab
    ELSE [pk \in Paths \X Keys |->
            IF pk[1] = from THEN NoRow
            ELSE IF pk[1] = to /\ tab[<<from, pk[2]>>] # NoRow
            THEN tab[<<from, pk[2]>>]
            ELSE tab[pk]]

UpdateChecksumsPath(tab, from, to) ==
    IF from = to THEN tab
    ELSE IF tab[from] = NoRow THEN tab
    ELSE IF tab[to] # NoRow THEN tab
    ELSE [tab EXCEPT ![to] = tab[from], ![from] = NoRow]

\* the result of ::rename is not tested: the rows are relabelled anyway
sidecar_reached_always(res) == TRUE

\* if (::rename(...) == -1) return -errno; the UPDATEs run otherwise
sidecar_reached(res) == res # -1

fs_rename(from, to) ==
    /\ from # to => HandlesOn(to) = {}
    /\ IF is_append_only_path(from) \/ is_append_only_path(to)
       THEN /\ ret' = Ret("rename", "EPERM", <<>>)
            /\ UNCHANGED <<backing, checksums, metadata, fdtab, pristine,
                           xattrs>>
       ELSE IF backing[from] = NoFile
       THEN /\ ret' = Ret("rename", "ENOENT", <<>>)
            /\ metadata' = IF meta_db /\ sidecar_reached(-1)
                           THEN UpdateMetadataPath(metadata, from, to)
                           ELSE metadata
            /\ checksums' = IF meta_db /\ sidecar_reached(-1)
                            THEN UpdateChecksumsPath(checksums, from, to)
                            ELSE checksums
            /\ UNCHANGED <<backing, fdtab, pristine, xattrs>>
       ELSE /\ backing' = IF from = to THEN backing
                          ELSE [backing EXCEPT ![to] = backing[from],
                                               ![from] = NoFile]
            /\ fdtab' = [fd \in Fds |->
                           IF fdtab[fd] # Closed /\ fdtab[fd].path = from
                           THEN [fdtab[fd] EXCEPT !.path = to]
                           ELSE fdtab[fd]]
            /\ metadata' = IF meta_db /\ sidecar_reached(0)
                           THEN UpdateMetadataPath(metadata, from, to)
                           ELSE metadata
            /\ checksums' = IF meta_db /\ sidecar_reached(0)
                            THEN UpdateChecksumsPath(checksums, from, to)
                            ELSE checksums
            /\ pristine' = IF from = to THEN pristine
                           ELSE [pristine EXCEPT ![to] = pristine[from],
                                                 ![from] = NoFile]
            /\ xattrs' = IF from = to THEN xattrs
                         ELSE [pk \in Paths \X Keys |->
                                 IF pk[1] = from THEN NoRow
                                 ELSE IF pk[1] = to
                                         /\ xattrs[<<from, pk[2]>>] # NoRow
                                 THEN xattrs[<<from, pk[2]>>]
                                 ELSE xattrs[pk]]
            /\ ret' = Ret("rename", "OK", <<>>)
    /\ UNCHANGED <<block_hashes, proc, inflight>>
    /\ UNCHANGED <<flips, append_only_dirs, meta_db, checksum_map, verified_ok_fds,
                   verified_bad_fds, open_path_to_fd>>

\* p lies below the directory d; where it lies after d was renamed to e
under_dir(d, p) ==
    /\ Len(p) > Len(d) + 1
    /\ SubSeq(p, 1, Len(d)) = d
    /\ p[Len(d) + 1] = "/"
moved_path(d, e, p) == e \o SubSeq(p, Len(d) + 1, Len(p))

\* UPDATE ... SET path = ? WHERE path = ?: the rows of that very path. The
\* tables of the model hold the rows of files, so the path of a directory
\* matches none of them
where_path_matches(from, to) == from \in Paths /\ to \in Paths

\* fs_rename called for a directory that holds files and no open handle:
\* ::rename moves the directory with all below it, and the two UPDATEs run
\* with the paths of the directory
fs_rename_dir(from, to) ==
    /\ from # to
    /\ \E p \in Paths : under_dir(from, p) /\ backing[p] # NoFile
    /\ \A p \in Paths : under_dir(to, p) => backing[p] = NoFile
    /\ \A p \in Paths : under_dir(from, p)
          => HandlesOn(p) = {} /\ moved_path(from, to, p) \in Paths
    /\ IF is_append_only_path(from) \/ is_append_only_path(to)
       THEN /\ ret' = Ret("rename", "EPERM", <<>>)
            /\ UNCHANGED <<backing, checksums, metadata, pristine, xattrs>>
       ELSE /\ backing' =
                  [p \in Paths |->
                      IF under_dir(from, p) THEN NoFile
                      ELSE IF under_dir(to, p)
                      THEN backing[moved_path(to, from, p)]
                      ELSE backing[p]]
            /\ pristine' =
                  [p \in Paths |->
                      IF under_dir(from, p) THEN NoFile
                      ELSE IF under_dir(to, p)
                      THEN pristine[moved_path(to, from, p)]
                      ELSE pristine[p]]
            /\ xattrs' =
                  [pk \in Paths \X Keys |->
                      IF under_dir(from, pk[1]) THEN NoRow
                      ELSE IF under_dir(to, pk[1])
                      THEN xattrs[<<moved_path(to, from, pk[1]), pk[2]>>]
                      ELSE xattrs[pk]]
            /\ metadata' =
                  IF meta_db /\ sidecar_reached(0) /\ where_path_matches(from, to)
                  THEN UpdateMetadataPath(metadata, from, to)
                  ELSE metadata
            /\ checksums' =
                  IF meta_db /\ sidecar_reached(0) /\ where_path_matches(from, to)
                  THEN UpdateChecksumsPath(checksums, from, to)
                  ELSE checksums
            /\ ret' = Ret("rename", "OK", <<>>)
    /\ UNCHANGED <<block_hashes, proc, inflight>>
    /\ UNCHANGED <<flips, append_only_dirs, meta_db, fdtab, checksum_map,
                   verified_ok_fds, verified_bad_fds, open_path_to_fd>>

(***************************************************************************)
(* The callbacks that the host may run in parallel, step by step. No       *)
(* callback takes a lock and fs_rename runs its three statements outside   *)
(* any transaction, so other callbacks run between the system calls and    *)
(* the sidecar statements of fs_release and fs_rename. A callback that has *)
(* begun and not returned is a record of inflight.                         *)
(***************************************************************************)
Call(op, pc, path, to, fd) ==
    [op |-> op, pc |-> pc, path |-> path, to |-> to, fd |-> fd]

\* fs_release up to close(2): the multimap entry is erased and the
\* descriptor closed, which frees its number
release_close(fd) ==
    /\ Cardinality(inflight) < MaxInflight
    /\ fdtab[fd] # Closed
    /\ LET path == fdtab[fd].path
       IN  /\ open_path_to_fd' = open_path_to_fd \ {<<path, fd>>}
           /\ fdtab' = [fdtab EXCEPT ![fd] = Closed]
           /\ inflight' = inflight \cup {Call("release", "store", path, path, fd)}
    /\ UNCHANGED <<block_hashes, proc, xattrs, flips, append_only_dirs, meta_db, backing,
                   checksums, metadata, checksum_map, verified_ok_fds,
                   verified_bad_fds, pristine, ret>>

\* fs_release from checksum_map.find(fd) to its return
release_store(t) ==
    /\ t \in inflight
    /\ t.op = "release" /\ t.pc = "store"
    /\ IF checksum_map[t.fd] # NoHash
       THEN /\ checksum_map' = [checksum_map EXCEPT ![t.fd] = NoHash]
            /\ checksums' = store_checksum(checksums, t.path, checksum_map[t.fd])
       ELSE UNCHANGED <<checksum_map, checksums>>
    /\ verified_ok_fds' = verified_ok_fds \ {t.fd}
    /\ verified_bad_fds' = verified_bad_fds \ {t.fd}
    /\ inflight' = inflight \ {t}
    /\ ret' = Ret("release", "OK", <<>>)
    /\ UNCHANGED <<block_hashes, proc, xattrs, flips, append_only_dirs, meta_db, backing,
                   metadata, fdtab, open_path_to_fd, pristine>>

\* fs_rename up to rename(2)
rename_backing(from, to) ==
    /\ Cardinality(inflight) < MaxInflight
    /\ from # to => HandlesOn(to) = {}
    /\ IF is_append_only_path(from) \/ is_append_only_path(to)
       THEN /\ ret' = Ret("rename", "EPERM", <<>>)
            /\ UNCHANGED <<backing, fdtab, pristine, xattrs, inflight>>
       ELSE IF backing[from] = NoFile
       THEN /\ ret' = Ret("rename", "ENOENT", <<>>)
            /\ UNCHANGED <<backing, fdtab, pristine, xattrs, inflight>>
       ELSE /\ backing' = IF from = to THEN backing
                          ELSE [backing EXCEPT ![to] = backing[from],
                                               ![from] = NoFile]
            /\ fdtab' = [fd \in Fds |->
                           IF fdtab[fd] # Closed /\ fdtab[fd].path = from
                           THEN [fdtab[fd] EXCEPT !.path = to]
                           ELSE fdtab[fd]]
            /\ pristine' = IF from = to THEN pristine
                           ELSE [pristine EXCEPT ![to] = pristine[from],
                                                 ![from] = NoFile]
            /\ xattrs' = IF from = to THEN xattrs
                         ELSE [pk \in Paths \X Keys |->
                                 IF pk[1] = from THEN NoRow
                                 ELSE IF pk[1] = to
                                         /\ xattrs[<<from, pk[2]>>] # NoRow
                                 THEN xattrs[<<from, pk[2]>>]
                                 ELSE xattrs[pk]]
            /\ inflight' = inflight \cup {Call("rename", "metadata", from, to, 0)}
            /\ UNCHANGED ret
    /\ UNCHANGED <<block_hashes, proc, flips, append_only_dirs, meta_db, checksums, metadata,
                   checksum_map, verified_ok_fds, verified_bad_fds,
                   open_path_to_fd>>

\* fs_rename: UPDATE metadata SET path = to WHERE path = from
rename_metadata(t) ==
    /\ t \in inflight
    /\ t.op = "rename" /\ t.pc = "metadata"
    /\ metadata' = IF meta_db THEN UpdateMetadataPath(metadata, t.path, t.to)
                   ELSE metadata
    /\ inflight' = (inflight \ {t})
                       \cup {Call("rename", "checksums", t.path, t.to, 0)}
    /\ UNCHANGED <<block_hashes, proc, xattrs, flips, append_only_dirs, meta_db, backing,
                   checksums, fdtab, checksum_map, verified_ok_fds,
                   verified_bad_fds, open_path_to_fd, pristine, ret>>

\* fs_rename: UPDATE checksums SET path = to WHERE path = from, and return
rename_checksums(t) ==
    /\ t \in inflight
    /\ t.op = "rename" /\ t.pc = "checksums"
    /\ checksums' = IF meta_db THEN UpdateChecksumsPath(checksums, t.path, t.to)
                    ELSE checksums
    /\ inflight' = inflight \ {t}
    /\ ret' = Ret("rename", "OK", <<>>)
    /\ UNCHANGED <<block_hashes, proc, xattrs, flips, append_only_dirs, meta_db, backing,
                   metadata, fdtab, checksum_map, verified_ok_fds,
                   verified_bad_fds, open_path_to_fd, pristine>>

(***************************************************************************)
(* Block mode (src/blockfs.cpp): no running hash and no verdict per        *)
(* handle; the sidecar table block_hashes holds one digest per block of a  *)
(* file, and reads and writes verify the blocks they touch. A block is     *)
(* 4096 bytes in the source; here it is BLOCK_SIZE bytes, so that a file   *)
(* of a few bytes has several blocks. The sidecar is open.                 *)
(***************************************************************************)
BLOCK_SIZE == 2

BlockModes == {"O_RDONLY", "O_WRONLY", "O_RDWR"}

get_block_index(offset) == offset \div BLOCK_SIZE

\* SELECT checksum FROM block_hashes WHERE path=? AND block_index=?
get_db_block_hash(tab, path, block_idx) ==
    IF tab[<<path, block_idx>>] = NoRow THEN "" ELSE tab[<<path, block_idx>>]

\* INSERT OR REPLACE INTO block_hashes(path, block_index, checksum)
set_db_block_hash(tab, path, block_idx, hash_str) ==
    [tab EXCEPT ![<<path, block_idx>>] = hash_str]

\* DELETE FROM block_hashes WHERE path=?
delete_file_hashes(tab, path) ==
    [pb \in Paths \X BlockIndexes |-> IF pb[1] = path THEN NoRow ELSE tab[pb]]

\* DELETE FROM block_hashes WHERE path=? AND block_index > ?
delete_hashes_after_index(tab, path, start_idx) ==
    [pb \in Paths \X BlockIndexes |->
        IF pb[1] = path /\ pb[2] > start_idx THEN NoRow ELSE tab[pb]]

\* update_fnv1a from the offset basis over a block, then oss << std::hex
block_hash(block_buf) == to_hex(update_fnv1a(FNV_OFFSET_BASIS, block_buf))

\* pread fails (EBADF) on a descriptor that fs_create opened O_WRONLY;
\* fs_open turns O_WRONLY into O_RDWR
can_pread(fd) == ~(fdtab[fd].how = "create" /\ fdtab[fd].accmode = "O_WRONLY")

\* only a block of full length is compared with its stored hash
block_corrupted_full(expected_hash, block_buf) ==
    /\ expected_hash # ""
    /\ Len(block_buf) = BLOCK_SIZE
    /\ block_hash(block_buf) # expected_hash

\* fs_read's test of one block: a stored hash exists, the block has bytes
\* and their hash is not the stored one
block_corrupted(expected_hash, block_buf) ==
    /\ expected_hash # ""
    /\ Len(block_buf) > 0
    /\ block_hash(block_buf) # expected_hash

\* fs_read's loop over the blocks touched by the bytes read: TRUE when no
\* block with a stored hash differs from it
RECURSIVE verify_blocks(_, _, _, _, _)
verify_blocks(content, tab, path, current_offset, remaining) ==
    IF remaining = 0 THEN TRUE
    ELSE LET block_idx == get_block_index(current_offset)
             block_start == block_idx * BLOCK_SIZE
             expected_hash == get_db_block_hash(tab, path, block_idx)
             block_buf == pread(content, BLOCK_SIZE, block_start)
             offset_in_block == current_offset % BLOCK_SIZE
             advance == Min(BLOCK_SIZE - offset_in_block, remaining)
         IN  IF block_corrupted(expected_hash, block_buf)
             THEN FALSE
             ELSE verify_blocks(content, tab, path,
                                current_offset + advance, remaining - advance)

\* fs_write's loop: block after block is read, verified, patched, written
\* back and its hash stored; the loop returns at the first block that
\* fails verification
RECURSIVE write_blocks(_, _, _, _, _, _, _)
write_blocks(content, tab, path, buf, offset, written_so_far, readable) ==
    IF written_so_far >= Len(buf)
    THEN [rc |-> "OK", content |-> content, tab |-> tab]
    ELSE LET current_offset == offset + written_so_far
             block_idx == get_block_index(current_offset)
             block_start == block_idx * BLOCK_SIZE
             offset_in_block == current_offset % BLOCK_SIZE
             bytes_to_write_here ==
                 Min(Len(buf) - written_so_far, BLOCK_SIZE - offset_in_block)
             existing == IF readable THEN pread(content, BLOCK_SIZE, block_start)
                         ELSE <<>>
             existing_len == Len(existing)
             db_hash == get_db_block_hash(tab, path, block_idx)
             new_len == IF existing_len > offset_in_block + bytes_to_write_here
                        THEN existing_len
                        ELSE offset_in_block + bytes_to_write_here
             block_buf ==
                 [i \in 1..new_len |->
                     IF i > offset_in_block
                        /\ i <= offset_in_block + bytes_to_write_here
                     THEN buf[written_so_far + i - offset_in_block]
                     ELSE IF i <= existing_len THEN existing[i]
                     ELSE 0]
         IN  IF existing_len > 0 /\ db_hash # "" /\ db_hash # block_hash(existing)
             THEN [rc |-> "EIO", content |-> content, tab |-> tab]
             ELSE write_blocks(pwrite(content, block_buf, block_start),
                               set_db_block_hash(tab, path, block_idx,
                                                 block_hash(block_buf)),
                               path, buf, offset,
                               written_so_far + bytes_to_write_here, readable)

blockSame == <<append_only_dirs, meta_db, checksums, metadata, checksum_map,
               verified_ok_fds, verified_bad_fds, open_path_to_fd, pristine,
               flips, xattrs, proc, inflight>>

block_fs_create(path, accmode) ==
    /\ backing[path] = NoFile
    /\ FreeFds # {}
    /\ backing' = [backing EXCEPT ![path] = <<>>]
    /\ fdtab' = [fdtab EXCEPT ![LowestFree] = Handle(path, accmode, "create", <<>>)]
    /\ ret' = Ret("create", "OK", <<>>)
    /\ UNCHANGED <<block_hashes, blockSame>>

\* fi->flags reach open(2) with only the access mode changed: O_TRUNC
\* empties the backing file, and no row of block_hashes is touched
block_fs_open(path, accmode, trunc) ==
    /\ backing[path] # NoFile
    /\ FreeFds # {}
    /\ backing' = IF trunc THEN [backing EXCEPT ![path] = <<>>] ELSE backing
    /\ fdtab' = [fdtab EXCEPT ![LowestFree] = Handle(path, accmode, "open", <<>>)]
    /\ ret' = Ret("open", "OK", <<>>)
    /\ UNCHANGED <<block_hashes, blockSame>>

block_fs_release(fd) ==
    /\ fdtab[fd] # Closed
    /\ fdtab' = [fdtab EXCEPT ![fd] = Closed]
    /\ ret' = Ret("release", "OK", <<>>)
    /\ UNCHANGED <<backing, block_hashes, blockSame>>

block_fs_read(fd, size, offset) ==
    /\ fdtab[fd] # Closed
    /\ fdtab[fd].accmode \in {"O_RDONLY", "O_RDWR"}
    /\ LET path == fdtab[fd].path
           res == pread(backing[path], size, offset)
       IN  ret' = IF Len(res) = 0 THEN Ret("read", "OK", <<>>)
                  ELSE IF verify_blocks(backing[path], block_hashes, path,
                                        offset, Len(res))
                  THEN Ret("read", "OK", res)
                  ELSE Ret("read", "EIO", <<>>)
    /\ UNCHANGED <<backing, fdtab, block_hashes, blockSame>>

block_fs_write(fd, buf, offset) ==
    /\ fdtab[fd] # Closed
    /\ fdtab[fd].accmode \in {"O_WRONLY", "O_RDWR"}
    /\ offset + Len(buf) <= MaxBlocks * BLOCK_SIZE
    /\ LET path == fdtab[fd].path
           done == write_blocks(backing[path], block_hashes, path, buf,
                                offset, 0, can_pread(fd))
       IN  /\ backing' = [backing EXCEPT ![path] = done.content]
           /\ block_hashes' = done.tab
           /\ ret' = Ret("write", done.rc, <<>>)
    /\ UNCHANGED <<fdtab, blockSame>>

\* UPDATE block_hashes SET path=? WHERE path=?: one statement; a row that
\* would collide with a row of the new path (PRIMARY KEY(path,
\* block_index)) aborts it and nothing is relabelled
UpdateBlockHashesPath(tab, from, to) ==
    IF from = to THEN tab
    ELSE IF \E b \in BlockIndexes :
               tab[<<from, b>>] # NoRow /\ tab[<<to, b>>] # NoRow
    THEN tab
    ELSE [pb \in Paths \X BlockIndexes |->
            IF pb[1] = from THEN NoRow
            ELSE IF pb[1] = to /\ tab[<<from, pb[2]>>] # NoRow
            THEN tab[<<from, pb[2]>>]
            ELSE tab[pb]]

blockKept == <<append_only_dirs, meta_db, checksums, checksum_map,
               verified_ok_fds, verified_bad_fds, open_path_to_fd, pristine,
               flips, xattrs, proc, inflight>>

block_fs_unlink(path) ==
    /\ HandlesOn(path) = {}
    /\ backing[path] # NoFile
    /\ backing' = [backing EXCEPT ![path] = NoFile]
    /\ block_hashes' = delete_file_hashes(block_hashes, path)
    /\ metadata' = DeleteMetadataPath(metadata, path)
    /\ ret' = Ret("unlink", "OK", <<>>)
    /\ UNCHANGED <<fdtab, blockKept>>

block_fs_rename(from, to) ==
    /\ from # to => HandlesOn(to) = {}
    /\ backing[from] # NoFile
    /\ backing' = IF from = to THEN backing
                  ELSE [backing EXCEPT ![to] = backing[from], ![from] = NoFile]
    /\ fdtab' = [fd \in Fds |->
                    IF fdtab[fd] # Closed /\ fdtab[fd].path = from
                    THEN [fdtab[fd] EXCEPT !.path = to]
                    ELSE fdtab[fd]]
    /\ block_hashes' = UpdateBlockHashesPath(block_hashes, from, to)
    /\ ret' = Ret("rename", "OK", <<>>)
    /\ UNCHANGED <<metadata, blockKept>>

block_fs_truncate(path, size) ==
    /\ backing[path] # NoFile
    /\ backing' = [backing EXCEPT ![path] = truncate(@, size)]
    /\ LET last_block_idx == get_block_index(size)
       IN  block_hashes' =
              IF size % BLOCK_SIZE = 0
              THEN LET after == delete_hashes_after_index(block_hashes, path,
                                                          last_block_idx - 1)
                   IN  IF size = 0 THEN delete_file_hashes(after, path)
                       ELSE after
              ELSE delete_hashes_after_index(block_hashes, path, last_block_idx)
    /\ ret' = Ret("truncate", "OK", <<>>)
    /\ UNCHANGED <<fdtab, blockSame>>

(***************************************************************************)
(* The environment: one byte of a backing file is changed outside the      *)
(* overlay. pristine keeps the bytes the stored checksum was taken from.   *)
(***************************************************************************)
ExternalFlip(path, i, b) ==
    /\ flips < MaxFlips
    /\ backing[path] # NoFile
    /\ i \in 1..Len(backing[path])
    /\ b # backing[path][i]
    /\ backing' = [backing EXCEPT ![path][i] = b]
    /\ pristine' =
          IF checksums[path] = compute_checksum_for_file(backing, path)
          THEN [pristine EXCEPT ![path] = backing[path]]
          ELSE pristine
    /\ flips' = flips + 1
    /\ ret' = Ret("external", "OK", <<>>)
    /\ UNCHANGED <<block_hashes, proc, inflight, xattrs, append_only_dirs, meta_db,
                   checksums, metadata, fdtab, checksum_map, verified_ok_fds,
                   verified_bad_fds, open_path_to_fd>>

\* the backing file is removed outside the overlay while read-only handles
\* may be open on it; their descriptors keep the bytes it had
ExternalRemove(path) ==
    /\ flips < MaxFlips
    /\ backing[path] # NoFile
    /\ \A fd \in HandlesOn(path) : fdtab[fd].accmode = "O_RDONLY"
    /\ backing' = [backing EXCEPT ![path] = NoFile]
    /\ pristine' = [pristine EXCEPT ![path] = backing[path]]
    /\ flips' = flips + 1
    /\ ret' = Ret("external", "OK", <<>>)
    /\ UNCHANGED <<block_hashes, proc, inflight, xattrs, append_only_dirs, meta_db,
                   checksums, metadata, fdtab, checksum_map, verified_ok_fds,
                   verified_bad_fds, open_path_to_fd>>

(***************************************************************************)
(* The specifications. Ops(names) is the host calling the callbacks on the *)
(* given names, after the name lookups described at the top.               *)
(***************************************************************************)
Payloads == {<<b>> : b \in Bytes}

Exists(p) == backing[p] # NoFile
MayOpen == Cardinality(Fds \ FreeFds) < MaxOpen

\* the callbacks as the host dispatches them
Create(names) ==
    \E p \in names, m \in AccModes : ~Exists(p) /\ MayOpen /\ fs_create(p, m)
Open(names) ==
    \E p \in names, m \in AccModes, t \in BOOLEAN :
        Exists(p) /\ MayOpen /\ fs_open(p, m, t)
Read == \E fd \in Fds : fs_read(fd, MaxLen, 0)
Write(payloads) ==
    \E fd \in Fds, buf \in payloads, off \in 0..MaxLen : fs_write(fd, buf, off)
Release == \E fd \in Fds : fs_release(fd)
Unlink(names) == \E p \in names : Exists(p) /\ fs_unlink(p)
Truncate(names) == \E p \in names, n \in 0..MaxLen : Exists(p) /\ fs_truncate(p, n)
SetXattr(names, keys, values) ==
    \E p \in names, k \in keys, v \in values : Exists(p) /\ fs_setxattr(p, k, v)
GetXattr(names) ==
    \E p \in names, k \in Keys, n \in 0..MaxValue :
        Exists(p) /\ fs_getxattr(p, k, n)
ListXattr(names) ==
    \E p \in names, n \in {0, MaxList} : Exists(p) /\ fs_listxattr(p, n)
Rename(names) ==
    \E p \in names, q \in names : Exists(p) /\ fs_rename(p, q)
Outside(names) ==
    \E p \in names, i \in 1..MaxLen, b \in Bytes : ExternalFlip(p, i, b)
Removed(names) == \E p \in names : ExternalRemove(p)

\* the callbacks of block mode as the host dispatches them
BlockCreate(names) ==
    \E p \in names, m \in BlockModes : ~Exists(p) /\ MayOpen /\ block_fs_create(p, m)
BlockOpen(names) ==
    \E p \in names, m \in BlockModes :
        Exists(p) /\ MayOpen /\ block_fs_open(p, m, FALSE)
BlockOpenTrunc(names) ==
    \E p \in names, m \in {"O_WRONLY", "O_RDWR"} :
        Exists(p) /\ MayOpen /\ block_fs_open(p, m, TRUE)
BlockUnlink(names) == \E p \in names : Exists(p) /\ block_fs_unlink(p)
BlockRename(names) ==
    \E p \in names, q \in names : Exists(p) /\ block_fs_rename(p, q)
BlockRead(sizes) ==
    \E fd \in Fds, n \in sizes, off \in 0..(MaxBlocks * BLOCK_SIZE - 1) :
        block_fs_read(fd, n, off)
BlockWrite(payloads) ==
    \E fd \in Fds, buf \in payloads, off \in 0..(MaxBlocks * BLOCK_SIZE - 1) :
        block_fs_write(fd, buf, off)
BlockRelease == \E fd \in Fds : block_fs_release(fd)
BlockTruncate(names) ==
    \E p \in names, n \in 0..(MaxBlocks * BLOCK_SIZE) :
        Exists(p) /\ block_fs_truncate(p, n)
OutsideAt(names, positions) ==
    \E p \in names, i \in positions, b \in Bytes : ExternalFlip(p, i, b)
\* a rename through a name the host still knows although the backing
\* file is gone
RenameGone(names) ==
    \E p \in names, q \in names : ~Exists(p) /\ fs_rename(p, q)

\* opens by several clients of one file, up to MaxShared handles at a time
MayShare == Cardinality(Fds \ FreeFds) < MaxShared
CreateShared(names) ==
    \E p \in names : ~Exists(p) /\ MayShare /\ fs_create(p, "O_RDWR")
OpenShared(names) ==
    \E p \in names, m \in AccModes : Exists(p) /\ MayShare /\ fs_open(p, m, FALSE)
WriteAt(payloads, offsets) ==
    \E fd \in Fds, buf \in payloads, off \in offsets : fs_write(fd, buf, off)

Init == Mounted(<<>>, NoFiles)

\* a mount without the option, used through the one name /a
Next ==
    \/ Create({PA}) \/ Open({PA}) \/ Read \/ Write(Payloads) \/ Release
    \/ Unlink({PA}) \/ Truncate({PA}) \/ SetXattr({PA}, {"user.k"}, {"v"}) \/ Rename({PA})

Spec == Init /\ [][Next]_vars

\* the same mount, files made at /a and renamed between /a and /b
NextRename ==
    \/ Create({PA}) \/  Write({<<97>>}) \/ Release
    \/ Unlink({PA, PB}) \/ SetXattr({PA, PB}, {"user.k"}, {"v"}) \/ Rename({PA, PB}) 

SpecRename == Init /\ [][NextRename]_vars

\* the same mount, files made at /a and renamed between /a and /b, and
\* their attributes: user.j with either value, user.k with one
NextXattr ==
    \/ Create({PA}) \/ Release \/ Unlink({PA, PB}) \/ Rename({PA, PB})
    \/ SetXattr({PA, PB}, {"user.j"}, Values)
    \/ SetXattr({PA, PB}, {"user.k"}, {"v"})
    \/ GetXattr({PA, PB}) \/ ListXattr({PA, PB})

SpecXattr == Init /\ [][NextXattr]_vars

\* a mount over a backing directory that holds /a: the file is opened,
\* read, written and renamed between /a and /b while it is open
InitHandles == Mounted(<<>>, [NoFiles EXCEPT ![PA] = <<97>>])

NextHandles ==
    \/ Open({PA, PB}) \/ Read \/ Write({<<97>>}) \/ Release
    \/ Rename({PA, PB})

SpecHandles == InitHandles /\ [][NextHandles]_vars

\* the same mount with callbacks in parallel: handles on /a are opened
\* and used while releases are under way
NextRace ==
    \/ Create({PA}) \/ Open({PA}) \/ Read \/ Write({<<97>>})
    \/ (\E fd \in Fds : release_close(fd))
    \/ (\E t \in inflight : release_store(t))

SpecRace == Init /\ [][NextRace]_vars

\* the same mount with callbacks in parallel: /a is made, given a row in
\* each table and renamed to /b, and /b is observed meanwhile
NextRenameRace ==
    \/ Create({PA}) \/ Release
    \/ SetXattr({PA}, {"user.k"}, {"v"})
    \/ (Exists(PA) /\ rename_backing(PA, PB))
    \/ (\E t \in inflight : rename_metadata(t))
    \/ (\E t \in inflight : rename_checksums(t))
    \/ Open({PB}) \/ Read \/ GetXattr({PB}) \/ Unlink({PB})

SpecRenameRace == Init /\ [][NextRenameRace]_vars

\* the program from its start: main, the mount with or without a sidecar,
\* a file written and truncated at /a, the unmount
Served == proc.pc = "serving"

InitMain == \E args \in ArgVectors : Started(args, NoFiles)

NextMain ==
    \/ main \/ fuse_main_fails \/ (\E opened \in BOOLEAN : fs_init(opened))
    \/ fs_destroy
    \/ (Served /\ Create({PA}))
    \/ (Served /\ Write({<<97>>}))
    \/ (Served /\ Release)
    \/ (Served /\ Truncate({PA}))
    \/ (Served /\ SetXattr({PA}, {"user.k"}, {"v"}))

SpecMain == InitMain /\ [][NextMain]_vars

\* a mount with "-o append_only_dirs=l" over a backing directory that holds
\* /a, used through /l/x and by renames between /a and /l/x
InitWorm == Mounted(<<DirL>>, [NoFiles EXCEPT ![PA] = <<97>>])

NextWorm ==
    \/ Create({PX}) \/ Open({PX}) \/ Read \/ Write(Payloads) \/ Release
    \/ Unlink({PX}) \/ Truncate({PX}) \/ SetXattr({PX}, {"user.k"}, {"v"}) \/ Rename({PA, PX})

SpecWorm == InitWorm /\ [][NextWorm]_vars

\* a mount without the option whose backing file /a is also changed outside
NextTamper ==
    \/ Create({PA}) \/ Open({PA}) \/ Read \/ Write({<<97>>}) \/ Release
    \/ Unlink({PA}) \/ Truncate({PA}) \/ Outside({PA})

SpecTamper == Init /\ [][NextTamper]_vars

\* the same mount, /a opened by up to MaxShared clients at a time, written
\* at its start and changed outside
NextShared ==
    \/ CreateShared({PA}) \/ OpenShared({PA}) \/ Read
    \/ WriteAt(Payloads, {0}) \/ Release \/ Outside({PA})

SpecShared == Init /\ [][NextShared]_vars

\* a mount over an empty /a that nothing changes outside: up to MaxShared
\* clients open it and every write is an append at the end of the file
AppendAt(payloads) ==
    \E fd \in Fds, buf \in payloads :
        /\ fdtab[fd] # Closed
        /\ Exists(fdtab[fd].path)
        /\ fs_write(fd, buf, Len(backing[fdtab[fd].path]))

\* a mount over a backing directory that holds /l/x: the file gets
\* attributes, is rewritten, and its directory is renamed between /l and /m
RenameDir(dirs) == \E d \in dirs, e \in dirs : fs_rename_dir(d, e)

InitDirs == Mounted(<<>>, [NoFiles EXCEPT ![PX] = <<97>>])

NextDirs ==
    \/ RenameDir({DirL, DirM}) \/ Open({PX, PMX}) \/ Read
    \/ Write({<<0>>}) \/ Release
    \/ SetXattr({PX, PMX}, {"user.k"}, {"v"})

SpecDirs == InitDirs /\ [][NextDirs]_vars

InitAppend == Mounted(<<>>, [NoFiles EXCEPT ![PA] = <<>>])

NextAppend ==
    OpenShared({PA}) \/ Read \/ AppendAt({<<97>>, <<0>>}) \/ Release

SpecAppend == InitAppend /\ [][NextAppend]_vars

\* the same mount, /a used by one client at a time, changed or removed
\* outside while it is open, and renamed to /b or from /b when it is gone
NextGone ==
    \/ Create({PA}) \/ Open({PA}) \/ Read \/ Write({<<97>>}) \/ Release
    \/ Outside({PA}) \/ Removed({PA}) \/ RenameGone({PA, PB})

SpecGone == Init /\ [][NextGone]_vars

\* a mount over a backing directory that holds /a and its row, with or
\* without the sidecar; /a is opened, read, rewritten and changed outside
InitVerify ==
    \E opened \in BOOLEAN :
        MountedWith(<<>>, [NoFiles EXCEPT ![PA] = <<97>>], opened)

NextVerify ==
    \/ Create({PA}) \/ Open({PA}) \/ Read \/ Write({<<97>>}) \/ Release
    \/ Unlink({PA}) \/ Outside({PA})

SpecVerify == InitVerify /\ [][NextVerify]_vars

\* mounts with different append-only directories over a backing directory
\* that holds a file at every name; the files are truncated and unlinked
PrefixLists == {<<>>, <<DirL>>, <<PA>>, <<PB, DirL>>}

InitPrefix ==
    \E dirs \in PrefixLists : Mounted(dirs, [p \in Paths |-> <<97>>])

NextPrefix == Unlink(Paths) \/ Truncate(Paths)

SpecPrefix == InitPrefix /\ [][NextPrefix]_vars

\* a mount over a backing directory that holds /a with any bytes; /a is
\* opened, written in buffers of every length, truncated and released
Chunks == SeqsUpTo(Bytes, MaxFold) \ {<<>>}

InitFold ==
    \E content \in SeqsUpTo(Bytes, MaxLen) :
        Mounted(<<>>, [NoFiles EXCEPT ![PA] = content])

NextFold ==
    \/ Open({PA}) \/ WriteAt(Chunks, 0..MaxLen) \/ Release \/ Truncate({PA})

SpecFold == InitFold /\ [][NextFold]_vars

\* a mount whose backing store may refuse the first write on a handle, or
\* take only a part of it
WriteRes(payloads) ==
    \E fd \in Fds, buf \in payloads, off \in 0..MaxLen,
       res \in {-1} \cup 1..MaxLen :
        /\ fdtab[fd] # Closed
        /\ res < Len(buf)
             => /\ fdtab[fd].wr = <<>>
                /\ checksum_map[fd]
                      \in {FNV_OFFSET_BASIS,
                           update_fnv1a(FNV_OFFSET_BASIS, fdtab[fd].base)}
        /\ fs_write_res(fd, buf, off, res)

NextShort ==
    Create({PA}) \/ Open({PA}) \/ Read \/ WriteRes(Chunks) \/ Release

SpecShort == Init /\ [][NextShort]_vars

\* block mode: /a is made, written in buffers that lie in one block or
\* reach into the next, read, truncated and changed outside
BlockPayloads == {<<97>>, <<0, 97>>, <<97, 97, 97>>}

NextBlock ==
    \/ BlockCreate({PA}) \/ BlockOpen({PA}) \/ BlockRelease
    \/ BlockRead({1, MaxBlocks * BLOCK_SIZE}) \/ BlockWrite(BlockPayloads)
    \/ BlockTruncate({PA}) \/ OutsideAt({PA}, 1..(MaxBlocks * BLOCK_SIZE))

SpecBlock == Init /\ [][NextBlock]_vars

\* block mode started with -o append_only_dirs=/l (or =l), on a backing
\* directory that holds /a and /l/x
BlockWormArgs ==
    { <<Prog, BackingDir, <<"-", "o">>, key \o t, <<"m">>, <<"-", "f">> >> :
          t \in {<<"/", "l">>, <<"l">>} }

InitBlockWorm ==
    \E args \in BlockWormArgs :
        BlockMounted(args, [NoFiles EXCEPT ![PA] = <<97>>, ![PX] = <<97>>])

NextBlockWorm ==
    \/ BlockOpenTrunc({PA, PX}) \/ BlockRelease \/ BlockUnlink({PA, PX})
    \/ BlockTruncate({PA, PX}) \/ BlockRename({PA, PB, PX})

SpecBlockWorm == InitBlockWorm /\ [][NextBlockWorm]_vars

TypeOK ==
    /\ meta_db \in BOOLEAN
    /\ \A p \in Paths :
          \/ backing[p] = NoFile
          \/ Len(backing[p]) <= MaxLen
          \/ Len(backing[p]) <= MaxBlocks * BLOCK_SIZE
    /\ \A pb \in Paths \X BlockIndexes :
          block_hashes[pb] = NoRow \/ Len(block_hashes[pb]) \in 1..16
    /\ verified_ok_fds \subseteq Fds
    /\ verified_bad_fds \subseteq Fds
    /\ open_path_to_fd \subseteq Paths \X Fds

(***************************************************************************)
(* What the properties below are stated with.                              *)
(***************************************************************************)

\* FNV-1a-64 of a byte string, by its definition: start from the offset
\* basis and, byte after byte, h <- (h XOR b) * prime mod 2^64
RECURSIVE Fnv1a64(_, _)
Fnv1a64(bytes, n) ==
    IF n = 0 THEN FNV_OFFSET_BASIS
    ELSE MulPrime(XorByte(Fnv1a64(bytes, n - 1), bytes[n]))

\* the digest as the sidecar stores it
Digest(bytes) == to_hex(Fnv1a64(bytes, Len(bytes)))

\* p lies under a configured prefix: it is the prefix, or continues it
\* after a "/"
UnderWormPrefix(p) ==
    \E i \in 1..Len(append_only_dirs) :
        LET d == append_only_dirs[i]
        IN  /\ Len(p) >= Len(d)
            /\ \A j \in 1..Len(d) : p[j] = d[j]
            /\ Len(p) > Len(d) => p[Len(d) + 1] = "/"

IsPrefix(s, t) == Len(s) <= Len(t) /\ \A j \in 1..Len(s) : s[j] = t[j]

IsWriter(fd) == fdtab[fd].accmode = "O_RDWR"

\* a read of the whole file on a read-only handle that has not failed
\* verification, when the stored digest is the digest of the content,
\* succeeds and returns the content
ReadOfConsistentFile ==
    \A fd \in Fds :
        ( /\ fs_read(fd, MaxLen, 0)
          /\ fdtab[fd].accmode = "O_RDONLY"
          /\ fd \notin verified_bad_fds
          /\ checksums[fdtab[fd].path] = Digest(backing[fdtab[fd].path]) )
        => ret' = Ret("read", "OK", backing[fdtab[fd].path])

(***************************************************************************)
(* C1: when a handle that created its file with write access is released,  *)
(* and only writes ran on the file since (no truncate by path), the        *)
(* checksums row of its path is the FNV-1a-64 digest of the concatenation  *)
(* of the payloads written, in the order they were written, whatever       *)
(* their offsets.                                                          *)
(***************************************************************************)
C1_CreatedFileDigest ==
    [][\A fd \in Fds :
          ( /\ fs_release(fd)
            /\ fdtab[fd].how = "create"
            /\ IsWriter(fd)
            /\ ~fdtab[fd].cut )
          => checksums'[fdtab[fd].path] = Digest(fdtab[fd].wr)]_vars

\* a release has left, for a file holding the bytes 'a', 0, the digest of
\* those two payloads
C1_Witness ==
    /\ ret.op = "release"
    /\ backing[PA] = <<97, 0>>
    /\ checksums[PA] = Digest(<<97, 0>>)

(***************************************************************************)
(* C2. A file is tampered when its bytes were changed outside the overlay  *)
(* while its checksums row was the digest of its bytes, the row is still   *)
(* that digest and the bytes still differ.                                 *)
(***************************************************************************)
Tampered(p) ==
    /\ pristine[p] # NoFile
    /\ backing[p] # NoFile
    /\ backing[p] # pristine[p]
    /\ checksums[p] = Digest(pristine[p])

\* C2 as claimed: every read of a tampered file fails with EIO, on whatever
\* handle and in whatever handle state
C2_EveryReadFails ==
    [][\A fd \in Fds :
          (fs_read(fd, MaxLen, 0) /\ Tampered(fdtab[fd].path))
          => ret'.rc = "EIO"]_vars

\* C2 (amended): a read of a tampered file fails with EIO when its handle
\* was opened read-only and has not passed verification before
C2_UnverifiedReadFails ==
    [][\A fd \in Fds :
          ( /\ fs_read(fd, MaxLen, 0)
            /\ Tampered(fdtab[fd].path)
            /\ fdtab[fd].accmode = "O_RDONLY"
            /\ fd \notin verified_ok_fds )
          => ret' = Ret("read", "EIO", <<>>)]_vars

\* a read of the tampered /a has failed
C2_Witness ==
    /\ ret = Ret("read", "EIO", <<>>)
    /\ Tampered(PA)
    /\ fdtab[1].accmode = "O_RDONLY"

(***************************************************************************)
(* C3: for a path under a configured prefix, unlink, truncate, open with   *)
(* O_TRUNC, rename from the path and rename onto the path all return       *)
(* EPERM.                                                                  *)
(***************************************************************************)
C3_WormRefusals ==
    [][\A p \in Paths : UnderWormPrefix(p) =>
          /\ fs_unlink(p) => ret'.rc = "EPERM"
          /\ \A n \in 0..MaxLen : fs_truncate(p, n) => ret'.rc = "EPERM"
          /\ \A m \in AccModes : fs_open(p, m, TRUE) => ret'.rc = "EPERM"
          /\ \A q \in Paths :
                (fs_rename(p, q) \/ fs_rename(q, p)) => ret'.rc = "EPERM"]_vars

\* a rename between /a and the non-empty /l/x has been refused
C3_Witness ==
    /\ ret = Ret("rename", "EPERM", <<>>)
    /\ UnderWormPrefix(PX)
    /\ Exists(PX) /\ Len(backing[PX]) > 0
    /\ Exists(PA)

(***************************************************************************)
(* C4: a file under a configured prefix stays at its path, and the bytes   *)
(* it holds in a state are a prefix of the bytes it holds in the next      *)
(* state, whatever callback runs.                                          *)
(***************************************************************************)
C4_AppendOnly ==
    [][\A p \in Paths :
          (UnderWormPrefix(p) /\ Exists(p))
          => /\ backing'[p] # NoFile
             /\ IsPrefix(backing[p], backing'[p])]_vars

(***************************************************************************)
(* C5: on a path under a configured prefix, create, open without O_TRUNC,  *)
(* write and read are never refused with EPERM: create and write succeed,  *)
(* open and read succeed or fail the integrity check with EIO.             *)
(***************************************************************************)
C5_WormPermits ==
    [][\A p \in Paths : UnderWormPrefix(p) =>
          /\ \A m \in AccModes :
                (fs_create(p, m) /\ FreeFds # {}) => ret'.rc = "OK"
          /\ \A m \in AccModes :
                (fs_open(p, m, FALSE) /\ Exists(p) /\ FreeFds # {})
                => ret'.rc \in {"OK", "EIO"}
          /\ \A fd \in HandlesOn(p) :
                /\ \A buf \in Payloads, off \in 0..MaxLen :
                      fs_write(fd, buf, off) => ret'.rc = "OK"
                /\ fs_read(fd, MaxLen, 0) => ret'.rc \in {"OK", "EIO"}]_vars

\* /l/x was opened without O_TRUNC and a byte was appended to it
C5_Witness ==
    /\ ret = Ret("write", "OK", <<>>)
    /\ UnderWormPrefix(PX)
    /\ fdtab[1].path = PX /\ fdtab[1].how = "open"
    /\ Len(fdtab[1].base) = 1
    /\ backing[PX] = fdtab[1].base \o fdtab[1].wr

(***************************************************************************)
(* C6: after a rename(from, to) that returns success, from has no          *)
(* checksums row and no metadata row, and the checksums row of to is the   *)
(* row from had before the rename (none if from had none).                 *)
(***************************************************************************)
C6_RenameMovesRows ==
    [][\A from \in Paths, to \in Paths :
          (fs_rename(from, to) /\ from # to /\ ret'.rc = "OK")
          => /\ checksums'[from] = NoRow
             /\ \A k \in Keys : metadata'[<<from, k>>] = NoRow
             /\ checksums'[to] = checksums[from]]_vars

C8_RowIsDigestOfContent ==
    [][/\ \A fd \in Fds :
             (fs_release(fd) /\ IsWriter(fd))
             => checksums'[fdtab[fd].path] = Digest(backing'[fdtab[fd].path])
       /\ \A p \in Paths, n \in 0..MaxLen :
             (fs_truncate(p, n) /\ ret'.rc = "OK")
             => checksums'[p] = Digest(backing'[p])]_vars

(***************************************************************************)
(* C9: when a handle opened write-capable without O_TRUNC is released, no  *)
(* truncate by path ran meanwhile and the file holds the bytes it held at  *)
(* the open followed by the payloads written on the handle, the checksums  *)
(* row is the digest of the whole file; and a read on a read-only handle   *)
(* of a file whose row is the digest of its bytes succeeds and returns     *)
(* them.                                                                   *)
(***************************************************************************)
C9_AppendKeepsDigest ==
    [][/\ \A fd \in Fds :
             ( /\ fs_release(fd)
               /\ fdtab[fd].how = "open"
               /\ IsWriter(fd)
               /\ fdtab[fd].wr # <<>>
               /\ ~fdtab[fd].cut
               /\ backing[fdtab[fd].path] = fdtab[fd].base \o fdtab[fd].wr )
             => checksums'[fdtab[fd].path] = Digest(backing'[fdtab[fd].path])
       /\ ReadOfConsistentFile]_vars

\* the old byte followed by the appended byte has been read back
C9_Witness ==
    /\ ret = Ret("read", "OK", <<0, 97>>)
    /\ fdtab[1].how = "open" /\ fdtab[1].accmode = "O_RDONLY"
    /\ checksums[PA] = Digest(<<0, 97>>)

(***************************************************************************)
(* C10: when a handle opened write-capable with O_TRUNC outside the        *)
(* configured prefixes is released, no truncate by path ran meanwhile and  *)
(* the file holds exactly the payloads written on the handle, the          *)
(* checksums row is the digest of those payloads; and a read on a          *)
(* read-only handle of a file whose row is the digest of its bytes         *)
(* succeeds and returns them.                                              *)
(***************************************************************************)
C10_OverwriteKeepsDigest ==
    [][/\ \A fd \in Fds :
             ( /\ fs_release(fd)
               /\ fdtab[fd].how = "open_trunc"
               /\ IsWriter(fd)
               /\ ~UnderWormPrefix(fdtab[fd].path)
               /\ ~fdtab[fd].cut
               /\ backing[fdtab[fd].path] = fdtab[fd].wr )
             => checksums'[fdtab[fd].path] = Digest(fdtab[fd].wr)
       /\ ReadOfConsistentFile]_vars

\* a handle that emptied a file of two bytes holding a row has written one
\* new byte
C10_Witness ==
    /\ fdtab[1].how = "open_trunc" /\ IsWriter(1)
    /\ fdtab[1].wr = <<97>> /\ backing[PA] = <<97>>
    /\ checksums[PA] = Digest(<<0, 0>>)

(***************************************************************************)
(* C11: extended attributes are a map keyed by (path, key). getxattr(p, k) *)
(* with a buffer large enough returns the value of the most recent         *)
(* setxattr of the key (ENODATA if none), and listxattr(p) returns exactly *)
(* the keys set and not removed: an unlink removes the keys of its path, a *)
(* rename removes the keys of its source and gives them to its target.     *)
(***************************************************************************)
C11_XattrMap ==
    [][\A p \in Paths :
          /\ \A k \in Keys :
                (fs_getxattr(p, k, MaxValue) /\ meta_db)
                => IF xattrs[<<p, k>>] = NoRow
                   THEN ret'.rc = "ENODATA"
                   ELSE /\ ret'.rc = "OK"
                        /\ ret'.data = Reply(Len(xattrs[<<p, k>>]),
                                             xattrs[<<p, k>>])
          /\ (fs_listxattr(p, MaxList) /\ meta_db)
             => /\ ret'.rc = "OK"
                /\ ret'.data.buf = {k \in Keys : xattrs[<<p, k>>] # NoRow}]_vars

(***************************************************************************)
(* C12: with the sidecar open, getxattr(p, k, size) returns ENODATA when   *)
(* there is no row (p, k); otherwise the length of the value without       *)
(* copying when size is 0; otherwise ERANGE when size is smaller than the  *)
(* length; otherwise the length and the value. No sidecar table changes.   *)
(***************************************************************************)
C12_GetXattrOutcome ==
    [][\A p \in Paths, k \in Keys, size \in 0..MaxValue :
          (fs_getxattr(p, k, size) /\ meta_db)
          => /\ metadata' = metadata
             /\ checksums' = checksums
             /\ LET row == metadata[<<p, k>>]
                IN  IF row = NoRow THEN ret'.rc = "ENODATA"
                    ELSE IF size = 0
                    THEN ret'.rc = "OK" /\ ret'.data = Reply(Len(row), "")
                    ELSE IF size < Len(row) THEN ret'.rc = "ERANGE"
                    ELSE ret'.rc = "OK" /\ ret'.data = Reply(Len(row), row)]_vars

\* a value of two bytes was fetched into a buffer of exactly two bytes
C12_Witness ==
    /\ ret.op = "getxattr" /\ ret.rc = "OK"
    /\ ret.data = Reply(MaxValue, "vw")
    /\ metadata[<<PB, "user.j">>] = "vw"

(***************************************************************************)
(* C13: a sidecar failure on a write-path update reaches the caller: when  *)
(* storing the digest fails during the release of a handle that has a      *)
(* running hash, or during a truncate that changed the file, the release   *)
(* or truncate returns EIO.                                                *)
(***************************************************************************)
C13_StoreFailureSurfaces ==
    [][/\ \A fd \in Fds :
             ( /\ fs_release(fd)
               /\ checksum_map[fd] # NoHash
               /\ store_checksum_result(fdtab[fd].path, checksum_map[fd]) # "OK" )
             => ret'.rc = "EIO"
       /\ \A p \in Paths, n \in 0..MaxLen :
             ( /\ fs_truncate(p, n)
               /\ Exists(p) /\ ~UnderWormPrefix(p)
               /\ store_checksum_result(p, Digest(backing'[p])) # "OK" )
             => ret'.rc = "EIO"]_vars

(***************************************************************************)
(* C14: the program ends with a non-zero exit status when it is started    *)
(* with fewer than two arguments after its name, and when the sidecar      *)
(* cannot be opened at mount; callbacks are never served with the sidecar  *)
(* unopened.                                                               *)
(***************************************************************************)
C14_ExitCodes ==
    [][/\ (main /\ Len(proc.argv) < 3)
          => (proc'.pc = "exited" /\ proc'.status # 0)
       /\ fs_init(FALSE) => (proc'.pc = "exited" /\ proc'.status # 0)
       /\ proc'.pc = "serving" => meta_db']_vars

(***************************************************************************)
(* C18. An append_only_dirs option of an argument vector v is, after the   *)
(* backing directory, either an argument "-o" followed by an argument      *)
(* that begins with "append_only_dirs=", or one argument that begins with  *)
(* "-oappend_only_dirs="; its entries are the non-empty pieces between     *)
(* the commas of what follows the "=".                                     *)
(***************************************************************************)
HasPrefix(s, pre) == Len(s) >= Len(pre) /\ \A j \in 1..Len(pre) : s[j] = pre[j]

IsPairAt(v, i) ==
    /\ i >= 3 /\ i < Len(v)
    /\ v[i] = <<"-", "o">>
    /\ HasPrefix(v[i + 1], key)

IsSingleAt(v, i) == i >= 3 /\ i <= Len(v) /\ HasPrefix(v[i], key2)

\* the elements of a set of numbers in increasing order
RECURSIVE Ascending(_)
Ascending(S) ==
    IF S = {} THEN <<>>
    ELSE LET least == CHOOSE x \in S : \A y \in S : x <= y
         IN  <<least>> \o Ascending(S \ {least})

\* the pieces of csv between commas, the empty ones left out, each made
\* absolute
Entries(csv) ==
    LET starts == {j \in 1..Len(csv) :
                      csv[j] # "," /\ (j = 1 \/ csv[j - 1] = ",")}
        EndOf(j) == CHOOSE e \in j..Len(csv) :
                        /\ \A m \in j..e : csv[m] # ","
                        /\ e = Len(csv) \/ csv[e + 1] = ","
        Piece(j) == [m \in 1..(EndOf(j) - j + 1) |-> csv[j + m - 1]]
        Absolute(e) == IF e[1] = "/" THEN e ELSE <<"/">> \o e
        order == Ascending(starts)
    IN  [n \in 1..Len(order) |-> Absolute(Piece(order[n]))]

\* the entries that the argument at i contributes
EntriesAt(v, i) ==
    IF i > 3 /\ IsPairAt(v, i - 1)
    THEN Entries([m \in 1..(Len(v[i]) - Len(key)) |-> v[i][m + Len(key)]])
    ELSE IF IsSingleAt(v, i)
    THEN Entries([m \in 1..(Len(v[i]) - Len(key2)) |-> v[i][m + Len(key2)]])
    ELSE <<>>

RECURSIVE ExpectedDirs(_, _)
ExpectedDirs(v, n) ==
    IF n = 0 THEN <<>> ELSE ExpectedDirs(v, n - 1) \o EntriesAt(v, n)

\* v without the backing directory and without its options
ExpectedForward(v) ==
    LET kept == {i \in 1..Len(v) :
                    /\ i # 2
                    /\ ~IsPairAt(v, i)
                    /\ ~(i > 3 /\ IsPairAt(v, i - 1))
                    /\ ~IsSingleAt(v, i)}
        order == Ascending(kept)
    IN  [n \in 1..Len(order) |-> v[order[n]]]

\* C18: for every argument vector that passes the usage test, the
\* configured prefixes are the entries of its append_only_dirs options in
\* order, and the vector handed to fuse_main is the original one without
\* the backing directory and without those options, the rest in order
C18_OptionParsing ==
    [][(main /\ Len(proc.argv) >= 3)
       => /\ append_only_dirs' = ExpectedDirs(proc.argv, Len(proc.argv))
          /\ proc'.argv = ExpectedForward(proc.argv)]_vars

\* "-o append_only_dirs=,/l,,m" and "-oappend_only_dirs=m," were taken out
\* of the arguments and left /l, /m, /m
C18_Witness ==
    /\ proc.pc = "fuse_main"
    /\ append_only_dirs = <<DirL, <<"/", "m">>, <<"/", "m">>>>
    /\ proc.argv = <<Prog>>

(***************************************************************************)
(* C15 (I5, under interleaving). A rename under way shows a partial view   *)
(* when its backing rename has succeeded (the file is at `to`, nothing is  *)
(* at `from`) while a metadata or checksums row is still under `from`.     *)
(* An observer is an open, a read or a getxattr on `to`.                   *)
(***************************************************************************)
PartialView(t) ==
    /\ t.op = "rename" /\ t.path # t.to
    /\ backing[t.path] = NoFile /\ backing[t.to] # NoFile
    /\ \/ checksums[t.path] # NoRow
       \/ \E k \in Keys : metadata[<<t.path, k>>] # NoRow

Observes(p) ==
    \/ \E m \in AccModes, trunc \in BOOLEAN : fs_open(p, m, trunc)
    \/ \E k \in Keys, size \in 0..MaxValue : fs_getxattr(p, k, size)
    \/ \E fd \in HandlesOn(p) : fs_read(fd, MaxLen, 0)

\* C15: no observer runs while a rename whose backing rename succeeded
\* shows a partial view
C15_RenameAtomic ==
    [][\A t \in inflight : PartialView(t) => ~Observes(t.to)]_vars

(***************************************************************************)
(* C16: the running hash and the verification verdict of a handle that is  *)
(* open before and after a step are changed only by a write or a read on   *)
(* that handle or by a truncate of its path; in particular not by the      *)
(* release of another handle that held the same descriptor number.         *)
(***************************************************************************)
C16_HandlesDoNotInterfere ==
    [][\A fd \in Fds :
          ( /\ fdtab[fd] # Closed /\ fdtab'[fd] # Closed
            /\ \/ checksum_map'[fd] # checksum_map[fd]
               \/ (fd \in verified_ok_fds') # (fd \in verified_ok_fds)
               \/ (fd \in verified_bad_fds') # (fd \in verified_bad_fds) )
          => \/ \E buf \in Payloads, off \in 0..MaxLen : fs_write(fd, buf, off)
             \/ fs_read(fd, MaxLen, 0)
             \/ \E n \in 0..MaxLen : fs_truncate(fdtab[fd].path, n)]_vars


(***************************************************************************)
(* C17: last writer wins. With several writer handles open on one path,    *)
(* a write on one handle leaves the running hash of every other handle as  *)
(* it was, and the release of a writer handle leaves in the checksums row  *)
(* of the path that handle's own accumulator: the digest of the bytes the  *)
(* file had when the handle was opened followed by the payloads written on *)
(* that handle, whatever the other handles wrote or published. So the row  *)
(* left after all are released is that of the handle released last. The    *)
(* callbacks of the handles interleave as whole callbacks.                 *)
(***************************************************************************)
OwnAccumulator(fd) ==
    Digest(IF fdtab[fd].how = "open" THEN fdtab[fd].base \o fdtab[fd].wr
           ELSE fdtab[fd].wr)

C17_LastWriterWins ==
    [][/\ \A fd \in Fds, g \in Fds :
             (g # fd /\ \E buf \in Payloads : fs_write(fd, buf, 0))
             => checksum_map'[g] = checksum_map[g]
       /\ \A fd \in Fds :
             (fs_release(fd) /\ IsWriter(fd))
             => checksums'[fdtab[fd].path] = OwnAccumulator(fd)]_vars

\* no handle is left and nothing was changed outside; the file holds the
\* byte 'a', written last by one handle, and the row is the digest of the
\* byte 0, written by the other handle, which was released last
C17_Witness ==
    /\ FreeFds = Fds
    /\ ret.op = "release"
    /\ flips = 0
    /\ backing[PA] = <<97>>
    /\ checksums[PA] = Digest(<<0>>)

(***************************************************************************)
(* C19: the verdict "bad" is sticky. While a handle is in verified_bad_fds *)
(* a read on it fails with EIO, and whatever callback runs, short of the   *)
(* release of that handle, leaves it in verified_bad_fds and out of        *)
(* verified_ok_fds, even when the stored digest and the content have been  *)
(* brought back into agreement.                                            *)
(***************************************************************************)
C19_StickyBad ==
    [][\A fd \in Fds :
          (fd \in verified_bad_fds /\ fdtab[fd] # Closed)
          => /\ fs_read(fd, MaxLen, 0) => ret'.rc = "EIO"
             /\ fdtab'[fd] # Closed
                 => (fd \in verified_bad_fds' /\ fd \notin verified_ok_fds')]_vars

\* a read has failed on a handle that is in verified_bad_fds although
\* nothing was changed outside and the stored digest is the digest of the
\* content again: a writer's release has repaired the row
C19_Witness ==
    \E fd \in verified_bad_fds :
        /\ fdtab[fd] # Closed
        /\ ret.op = "read" /\ ret.rc = "EIO"
        /\ flips = 0
        /\ checksums[fdtab[fd].path] = Digest(backing[fdtab[fd].path])

(***************************************************************************)
(* C20. A handle enters verified_bad_fds by a read; the row and the file   *)
(* it was judged by are those of the state the read ran in.                *)
(***************************************************************************)
EntersBad(fd) == fd \notin verified_bad_fds /\ fd \in verified_bad_fds'

C21_FirstRead ==
    [][\A fd \in Fds :
          ( /\ fs_read(fd, MaxLen, 0)
            /\ fdtab[fd].accmode = "O_RDONLY"
            /\ fd \notin verified_ok_fds \cup verified_bad_fds )
          => LET p == fdtab[fd].path
                 differ == /\ meta_db
                           /\ checksums[p] # NoRow
                           /\ checksums[p] # Digest(backing[p])
             IN  IF differ
                 THEN /\ fd \in verified_bad_fds' \ verified_ok_fds'
                      /\ ret'.rc = "EIO" /\ ret'.data = <<>>
                 ELSE /\ fd \in verified_ok_fds' \ verified_bad_fds'
                      /\ ret'.rc = "OK" /\ ret'.data = backing[p]]_vars

\* without the sidecar, a first read has served the bytes of a file that
\* was changed outside and whose row, left by an earlier mount, is not
\* their digest
C21_Witness ==
    \E fd \in verified_ok_fds :
        /\ ~meta_db
        /\ ret.op = "read" /\ ret.rc = "OK"
        /\ fdtab[fd].accmode = "O_RDONLY"
        /\ flips = 1
        /\ checksums[fdtab[fd].path] \notin {NoRow, Digest(backing[fdtab[fd].path])}

(***************************************************************************)
(* C22: an open with write access and without O_TRUNC. When the sidecar    *)
(* holds for the path a digest that is not the digest of the backing file, *)
(* the open returns EIO, the descriptor it took is free again, and the     *)
(* running hashes, the path-to-descriptor entries, the sidecar and the     *)
(* file are as before, with no running hash and no verdict kept for that   *)
(* descriptor. Otherwise (the digests agree, or none can be had from the   *)
(* sidecar) the open succeeds and the descriptor's running hash is the     *)
(* FNV-1a-64 of the backing file.                                          *)
(***************************************************************************)
C22_StrictOpen ==
    [][\A p \in Paths :
          (fs_open(p, "O_RDWR", FALSE) /\ Exists(p) /\ FreeFds # {})
          => LET fd == LowestFree
                 stored == IF meta_db THEN checksums[p] ELSE NoRow
             IN  IF stored # NoRow /\ stored # Digest(backing[p])
                 THEN /\ ret'.rc = "EIO"
                      /\ fdtab' = fdtab
                      /\ checksum_map' = checksum_map /\ checksum_map'[fd] = NoHash
                      /\ fd \notin verified_ok_fds' \cup verified_bad_fds'
                      /\ verified_ok_fds' \cup {fd} = verified_ok_fds \cup {fd}
                      /\ verified_bad_fds' \cup {fd} = verified_bad_fds \cup {fd}
                      /\ open_path_to_fd' = open_path_to_fd
                      /\ checksums' = checksums /\ metadata' = metadata
                      /\ backing' = backing
                 ELSE /\ ret'.rc = "OK"
                      /\ fdtab'[fd].path = p
                      /\ checksum_map'[fd] = Fnv1a64(backing[p], Len(backing[p]))
                      /\ <<p, fd>> \in open_path_to_fd'
                      /\ checksums' = checksums]_vars

\* an open has been refused with EIO: the row of /a is not the digest of
\* its bytes, which were changed outside, and no descriptor is in use
C22_Witness ==
    /\ ret.op = "open" /\ ret.rc = "EIO"
    /\ meta_db
    /\ flips = 1
    /\ checksums[PA] \notin {NoRow, Digest(backing[PA])}
    /\ FreeFds = Fds
    /\ open_path_to_fd = {}

(***************************************************************************)
(* C23: after a truncate by path that returns success, the checksums row   *)
(* of the path is the digest of the bytes the file has after the           *)
(* truncation, whether it shrank, kept its size or grew.                   *)
(***************************************************************************)
C23_TruncateStoresDigest ==
    [][\A p \in Paths, n \in 0..MaxLen :
          (fs_truncate(p, n) /\ ret'.rc = "OK")
          => checksums'[p] = Digest(backing'[p])]_vars

(***************************************************************************)
(* C24: after a truncate by path that returns success, every handle open   *)
(* on the path with write access, obtained by open or by create, has as    *)
(* its running hash the FNV-1a-64 of the truncated file, and no read-only  *)
(* handle on the path has a running hash.                                  *)
(***************************************************************************)
C24_TruncateResetsWriters ==
    [][\A p \in Paths, n \in 0..MaxLen :
          (fs_truncate(p, n) /\ ret'.rc = "OK")
          => \A fd \in HandlesOn(p) :
                checksum_map'[fd] =
                    IF IsWriter(fd) THEN Fnv1a64(backing'[p], Len(backing'[p]))
                    ELSE NoHash]_vars

(***************************************************************************)
(* C25: a rename whose backing rename fails (the source is gone from the   *)
(* backing directory) returns the host's error, ENOENT, and leaves both    *)
(* sidecar tables, the backing files and every handle table as they were.  *)
(***************************************************************************)
C25_FailedRenameFrame ==
    [][\A from \in Paths, to \in Paths :
          ( /\ fs_rename(from, to)
            /\ ~is_append_only_path(from) /\ ~is_append_only_path(to)
            /\ backing[from] = NoFile )
          => /\ ret'.rc = "ENOENT"
             /\ UNCHANGED <<metadata, checksums, backing, fdtab, checksum_map,
                            verified_ok_fds, verified_bad_fds,
                            open_path_to_fd>>]_vars

\* a rename of /a to /b has failed with ENOENT while /a, removed outside,
\* still has its checksums row and an open handle
C25_Witness ==
    /\ ret.op = "rename" /\ ret.rc = "ENOENT"
    /\ backing[PA] = NoFile /\ backing[PB] = NoFile
    /\ checksums[PA] # NoRow /\ checksums[PB] = NoRow
    /\ HandlesOn(PA) # {}

(***************************************************************************)
(* C26: is_append_only_path(p) is true exactly when p is one of the        *)
(* configured directories or begins with one of them followed by "/". It   *)
(* is a matter of the text of p and of the directories alone: whatever the *)
(* files and the sidecar hold, unlink and truncate of p are refused with   *)
(* EPERM exactly in that case. A sibling whose name extends a directory's  *)
(* name (/l2 beside /l) is not append-only.                                *)
(***************************************************************************)
C26_AppendOnlyPath ==
    [][/\ \A p \in Paths : is_append_only_path(p) <=> UnderWormPrefix(p)
       /\ \A p \in Paths :
             (fs_unlink(p) \/ \E n \in 0..MaxLen : fs_truncate(p, n))
             => (ret'.rc = "EPERM" <=> UnderWormPrefix(p))]_vars

\* with /l append-only, its sibling /l2 has been unlinked while /l/x, which
\* lies inside /l, is still there
C26_Witness ==
    /\ append_only_dirs = <<DirL>>
    /\ ret.op = "unlink" /\ ret.rc = "OK"
    /\ backing[PL2] = NoFile
    /\ backing[PX] # NoFile

(***************************************************************************)
(* C27: verdicts are per handle. A read changes the verdict of no handle   *)
(* but its own; a read on a read-only handle without a verdict fails with  *)
(* EIO when the row of its path is not the digest of the file, even when   *)
(* another handle on the same path is in verified_ok_fds; and a handle     *)
(* just obtained by open or create is in neither verified set, whatever    *)
(* handle had its descriptor number before.                                *)
(***************************************************************************)
C27_VerdictPerHandle ==
    [][/\ \A fd \in Fds :
             fs_read(fd, MaxLen, 0)
             => /\ verified_ok_fds' \ {fd} = verified_ok_fds \ {fd}
                /\ verified_bad_fds' \ {fd} = verified_bad_fds \ {fd}
       /\ \A fd \in Fds :
             ( /\ fs_read(fd, MaxLen, 0)
               /\ fdtab[fd].accmode = "O_RDONLY"
               /\ fd \notin verified_ok_fds
               /\ \E g \in verified_ok_fds : fdtab[g].path = fdtab[fd].path
               /\ checksums[fdtab[fd].path]
                     \notin {NoRow, Digest(backing[fdtab[fd].path])} )
             => (ret'.rc = "EIO" /\ fd \in verified_bad_fds')
       /\ \A fd \in Fds :
             (fdtab[fd] = Closed /\ fdtab'[fd] # Closed)
             => fd \notin verified_ok_fds' \cup verified_bad_fds']_vars

\* two read-only handles on /a: the one that read before the file was
\* changed outside is in verified_ok_fds, the one that read after it has
\* just failed and is in verified_bad_fds
C27_Witness ==
    \E fd \in verified_bad_fds, g \in verified_ok_fds :
        /\ fdtab[fd].path = PA /\ fdtab[g].path = PA
        /\ fdtab[fd].accmode = "O_RDONLY" /\ fdtab[g].accmode = "O_RDONLY"
        /\ ret.op = "read" /\ ret.rc = "EIO"
        /\ flips = 1

(***************************************************************************)
(* C28: the fold does not depend on how the bytes are cut into buffers.    *)
(* For every file and every split of its bytes into consecutive non-empty  *)
(* chunks, update_fnv1a applied to the chunks in turn from the offset      *)
(* basis gives the FNV-1a-64 of the bytes (mod 2^64), which is what the    *)
(* scan of the file gives; and the running hash of a writer that no        *)
(* truncate by path has reset is the FNV-1a-64 of the bytes it started     *)
(* from followed by its payloads, in however many writes they came.        *)
(***************************************************************************)
RECURSIVE Splits(_)
Splits(bytes) ==
    IF bytes = <<>> THEN {<<>>}
    ELSE UNION {{<<SubSeq(bytes, 1, k)>> \o rest :
                    rest \in Splits(SubSeq(bytes, k + 1, Len(bytes)))} :
                k \in 1..Len(bytes)}

RECURSIVE FoldChunks(_, _)
FoldChunks(hash, chunks) ==
    IF chunks = <<>> THEN hash
    ELSE FoldChunks(update_fnv1a(hash, Head(chunks)), Tail(chunks))

StartedFrom(fd) == IF fdtab[fd].how = "open" THEN fdtab[fd].base ELSE <<>>

C28_FoldPartition ==
    /\ \A p \in Paths :
          backing[p] # NoFile
          => /\ \A split \in Splits(backing[p]) :
                   FoldChunks(FNV_OFFSET_BASIS, split)
                       = Fnv1a64(backing[p], Len(backing[p]))
             /\ compute_hash_uint64(backing, p)
                   = Fnv1a64(backing[p], Len(backing[p]))
    /\ \A fd \in Fds :
          (checksum_map[fd] # NoHash /\ ~fdtab[fd].cut)
          => checksum_map[fd]
                = Fnv1a64(StartedFrom(fd) \o fdtab[fd].wr,
                          Len(StartedFrom(fd)) + Len(fdtab[fd].wr))

\* a writer opened on the one byte 'a' has written the bytes 0 and 'a':
\* its running hash is the FNV-1a-64 of the three bytes
C28_Witness ==
    \E fd \in Fds :
        /\ fdtab[fd].how = "open" /\ fdtab[fd].base = <<97>>
        /\ fdtab[fd].wr = <<0, 97>>
        /\ checksum_map[fd] = Fnv1a64(<<97, 0, 97>>, 3)

(***************************************************************************)
(* Block mode: what a block holds and whether its stored digest fits it,   *)
(* stated without the loops of the callbacks.                              *)
(***************************************************************************)
BlockBytes(content, b) ==
    LET first == b * BLOCK_SIZE + 1
        last == IF (b + 1) * BLOCK_SIZE < Len(content)
                THEN (b + 1) * BLOCK_SIZE ELSE Len(content)
    IN  IF first > last THEN <<>> ELSE SubSeq(content, first, last)

BlocksOf(off, len) ==
    IF len = 0 THEN {}
    ELSE {b \in BlockIndexes :
             b >= off \div BLOCK_SIZE /\ b <= (off + len - 1) \div BLOCK_SIZE}

BlockDiffers(path, b) ==
    /\ block_hashes[<<path, b>>] # NoRow
    /\ block_hashes[<<path, b>>] # Digest(BlockBytes(backing[path], b))

BlockOffsets == 0..(MaxBlocks * BLOCK_SIZE - 1)

\* C29: a block-mode write that touches a block whose bytes do not fit its
\* stored digest returns EIO and leaves the backing file and every row of
\* block_hashes as they were, the blocks before the bad one included.
C29_WriteAllOrNothing ==
    [][\A fd \in Fds, buf \in BlockPayloads, off \in BlockOffsets :
          ( /\ block_fs_write(fd, buf, off)
            /\ \E b \in BlocksOf(off, Len(buf)) :
                   /\ BlockBytes(backing[fdtab[fd].path], b) # <<>>
                   /\ BlockDiffers(fdtab[fd].path, b) )
          => ( /\ ret'.rc = "EIO"
               /\ backing' = backing
               /\ block_hashes' = block_hashes )]_vars

\* C30 as stated: a block-mode read of len bytes at off returns EIO when a
\* block with index floor(off/BLOCK_SIZE)..floor((off+len-1)/BLOCK_SIZE)
\* has a stored digest that differs from the digest of its bytes.
C30_ReadVerifiesRequested ==
    [][\A fd \in Fds, n \in {1, MaxBlocks * BLOCK_SIZE}, off \in BlockOffsets :
          ( /\ block_fs_read(fd, n, off)
            /\ \E b \in BlocksOf(off, n) : BlockDiffers(fdtab[fd].path, b) )
          => ret'.rc = "EIO"]_vars

\* the bytes of the file that a read of n bytes at off delivers
BytesRead(content, n, off) ==
    IF off >= Len(content) THEN <<>>
    ELSE SubSeq(content, off + 1,
                IF off + n < Len(content) THEN off + n ELSE Len(content))

\* C30: a block-mode read returns EIO when a block that holds one of the
\* bytes it actually read has a stored digest that differs from the digest
\* of the block's bytes, and returns the bytes when no such block differs;
\* a read that starts at or after the end of the file returns no bytes and
\* verifies nothing.
C30_ReadVerifiesTouched ==
    [][\A fd \in Fds, n \in {1, MaxBlocks * BLOCK_SIZE}, off \in BlockOffsets :
          block_fs_read(fd, n, off)
          => LET path == fdtab[fd].path
                 got == BytesRead(backing[path], n, off)
                 bad == \E b \in BlocksOf(off, Len(got)) : BlockDiffers(path, b)
             IN  /\ bad => ret'.rc = "EIO"
                 /\ ~bad => (ret'.rc = "OK" /\ ret'.data = got)]_vars

\* a read was refused although the first block of /a fits its digest: the
\* second, partly filled block does not
C30_Witness ==
    /\ ret.op = "read" /\ ret.rc = "EIO"
    /\ Exists(PA) /\ Len(backing[PA]) = BLOCK_SIZE + 1
    /\ block_hashes[<<PA, 0>>] # NoRow /\ ~BlockDiffers(PA, 0)
    /\ BlockDiffers(PA, 1)

\* C31: after a block-mode truncate(p, n), no row is left for a block of p
\* that lies wholly beyond n, and when n falls inside a block the row of
\* that block, if there is one, is the digest of the bytes the block now
\* holds.
C31_TruncateRehashesTail ==
    [][\A p \in Paths, n \in 0..(MaxBlocks * BLOCK_SIZE) :
          block_fs_truncate(p, n)
          => /\ \A b \in BlockIndexes :
                   b * BLOCK_SIZE >= n => block_hashes'[<<p, b>>] = NoRow
             /\ n % BLOCK_SIZE # 0
                   => ~BlockDiffers(p, get_block_index(n))']_vars

\* the part of C31 about the rows beyond the new end of the file
C31_RowsBeyondDeleted ==
    [][\A p \in Paths, n \in 0..(MaxBlocks * BLOCK_SIZE) :
          block_fs_truncate(p, n)
          => \A b \in BlockIndexes :
                b * BLOCK_SIZE >= n => block_hashes'[<<p, b>>] = NoRow]_vars

\* the paths under /l, the directory the append-only option named
UnderNamed(p) == p = DirL \/ (IsPrefix(DirL, p) /\ Len(p) > Len(DirL)
                                /\ p[Len(DirL) + 1] = "/")

\* C32: in block mode started with the append-only option, unlink,
\* truncate, open with truncation and rename of a path under the named
\* directory are refused with a permission error.
C32_BlockWormEnforced ==
    [][\A p \in Paths :
          ( /\ UnderNamed(p)
            /\ \/ block_fs_unlink(p)
               \/ \E n \in 0..(MaxBlocks * BLOCK_SIZE) : block_fs_truncate(p, n)
               \/ \E m \in BlockModes : block_fs_open(p, m, TRUE)
               \/ \E q \in Paths : block_fs_rename(p, q) \/ block_fs_rename(q, p) )
          => ret'.rc \in {"EPERM", "EACCES"}]_vars

\* C33: every descriptor in checksum_map, verified_ok_fds, verified_bad_fds
\* or open_path_to_fd is the descriptor of an open handle, and
\* open_path_to_fd holds it under that handle's current path; hence nothing
\* of a released handle is left in the four tables.
C33_NoHandleLeak ==
    /\ \A fd \in Fds :
          (checksum_map[fd] # NoHash \/ fd \in verified_ok_fds
             \/ fd \in verified_bad_fds) => fdtab[fd] # Closed
    /\ \A e \in open_path_to_fd :
          fdtab[e[2]] # Closed /\ fdtab[e[2]].path = e[1]

\* the first three tables alone
C33_NoLeakWithoutMultimap ==
    \A fd \in Fds :
        (checksum_map[fd] # NoHash \/ fd \in verified_ok_fds
           \/ fd \in verified_bad_fds) => fdtab[fd] # Closed

\* C34: with no change outside the overlay and every write an append, no
\* open and no read by any of several handles on one path fails with EIO.
C34_NoFalseEIO == ret.rc # "EIO"

\* C35: a write folds into the running hash of its handle exactly the
\* bytes that pwrite put into the backing file: none when it failed, the
\* first res when it wrote res of them.
C35_FoldsWhatWasWritten ==
    [][\A fd \in Fds, buf \in Chunks, off \in 0..MaxLen, res \in -1..MaxLen :
          (fs_write_res(fd, buf, off, res) /\ checksum_map[fd] # NoHash)
          => checksum_map'[fd]
               = update_fnv1a(checksum_map[fd],
                              IF res = -1 THEN <<>> ELSE SubSeq(buf, 1, res))]_vars

\* C36: after a successful rename of a directory d to e, the digest and
\* the attributes stored for each file d/x are found under e/x and no row
\* is left under d.
C36_RowsFollowDirectory ==
    [][\A d \in {DirL, DirM}, e \in {DirL, DirM} :
          (fs_rename_dir(d, e) /\ ret'.rc = "OK")
          => \A p \in Paths :
                under_dir(d, p)
                => /\ checksums'[moved_path(d, e, p)] = checksums[p]
                   /\ \A k \in Keys :
                         metadata'[<<moved_path(d, e, p), k>>]
                            = metadata[<<p, k>>]
                   /\ checksums'[p] = NoRow
                   /\ \A k \in Keys : metadata'[<<p, k>>] = NoRow]_vars

\* C37: a row of checksums or of metadata exists for a path only while a
\* backing file exists at that path.
C37_NoOrphanRows ==
    \A p \in Paths :
        (checksums[p] # NoRow \/ \E k \in Keys : metadata[<<p, k>>] # NoRow)
        => backing[p] # NoFile

\* C38: after a block-mode write that returned success, on whatever
\* handle, the bytes of the file at off .. off+len-1 are those of buf and
\* every other byte the file had before is as it was.
C38_WriteChangesOnlyRange ==
    [][\A fd \in Fds, buf \in BlockPayloads, off \in BlockOffsets :
          (block_fs_write(fd, buf, off) /\ ret'.rc = "OK")
          => LET before == backing[fdtab[fd].path]
                 after == backing'[fdtab[fd].path]
             IN  /\ Len(after) >= off + Len(buf)
                 /\ \A i \in 1..Len(buf) : after[off + i] = buf[i]
                 /\ \A j \in 1..Len(before) :
                       (j <= off \/ j > off + Len(buf))
                       => (j <= Len(after) /\ after[j] = before[j])]_vars

\* the same for handles whose descriptor can be read
C38_WriteChangesOnlyRangeReadable ==
    [][\A fd \in Fds, buf \in BlockPayloads, off \in BlockOffsets :
          (block_fs_write(fd, buf, off) /\ ret'.rc = "OK" /\ can_pread(fd))
          => LET before == backing[fdtab[fd].path]
                 after == backing'[fdtab[fd].path]
             IN  /\ Len(after) >= off + Len(buf)
                 /\ \A i \in 1..Len(buf) : after[off + i] = buf[i]
                 /\ \A j \in 1..Len(before) :
                       (j <= off \/ j > off + Len(buf))
                       => (j <= Len(after) /\ after[j] = before[j])]_vars

\* C39: as long as nothing changed the backing file outside the overlay,
\* every row of block_hashes is the digest of the bytes its block holds,
\* and no block-mode callback has returned EIO.
C39_BlockRowsConsistent ==
    flips = 0
    => /\ \A p \in Paths, b \in BlockIndexes :
             (Exists(p) /\ block_hashes[<<p, b>>] # NoRow)
             => ~BlockDiffers(p, b)
       /\ ret.rc # "EIO"

\* a reachable state that C39 excludes, made by two writes on one readable
\* handle: the second write began beyond the end of the file
C39_HoleLeavesStaleRow ==
    /\ flips = 0
    /\ \E fd \in Fds :
          /\ fdtab[fd] # Closed /\ fdtab[fd].how = "create"
          /\ fdtab[fd].accmode = "O_RDWR" /\ fdtab[fd].path = PA
    /\ backing[PA] = <<97, 0, 97>>
    /\ block_hashes[<<PA, 0>>] = Digest(<<97>>)
    /\ ret.op = "read" /\ ret.rc = "EIO"

\* C40: a callback that returns the append-only refusal (EPERM) leaves the
\* backing files, both sidecar tables, the running hashes, the verified
\* sets, the path-to-handle map and the open descriptors as they were.
C40_RefusalHasNoEffect ==
    [][ret'.rc = "EPERM"
       => UNCHANGED <<backing, checksums, metadata, checksum_map,
                      verified_ok_fds, verified_bad_fds, open_path_to_fd,
                      fdtab>>]_vars

\* an unlink under the append-only directory was refused while the file
\* had a row
C40_Witness ==
    /\ ret.op = "unlink" /\ ret.rc = "EPERM"
    /\ Exists(PX) /\ checksums[PX] # NoRow
    /\ is_append_only_path(PX)
====
